---- MODULE Spec2Model ----
(***************************************************************************)
(* A state-machine model of the analysis core of doc-analyzer:             *)
(*   - embeddings.Client.EmbedTexts (batched, bounded-concurrency fan-out) *)
(*   - embeddings.CachedClient.EmbedTexts (bulk cache in front of it)      *)
(* Go nil slices are the empty sequence; Go nil errors are Nil.  A vector   *)
(* is a non-empty sequence, a nil vector the empty one.                     *)
(***************************************************************************)
EXTENDS Integers, Sequences, FiniteSets

Nil == "nil"

\* A nil error value of EmbedTexts, and an unset return value.
NoErr == [batch |-> -1, err |-> Nil]
NoRet == [vectors |-> <<>>, err |-> NoErr]

\* ------------------------------------------------------------------------
\* Bounds of the model
\* ------------------------------------------------------------------------
MaxTexts == 3
MaxBatchSize == 2
MaxConcurrent == 2

Texts == {"a", "b", "c"}

\* Inputs of the direct calls of Client.EmbedTexts.
ClientTexts == {"a", "b"}

SeqsUpTo(S, n) == UNION {[1..k -> S] : k \in 0..n}

TextInputs == SeqsUpTo(Texts, MaxTexts)

ClientInputs == SeqsUpTo(ClientTexts, MaxTexts)

\* ------------------------------------------------------------------------
\* Program constants
\* ------------------------------------------------------------------------
defaultBatchSize == 100
defaultMaxConcurrent == 5

\* The vector the remote embedding service computes for a text.
RemoteEmbedding(t) == <<t>>

VARIABLES
    client,       \* Client struct: [batchSize, maxConcurrent]
    ctxDone,      \* the caller's context has been cancelled
    phase,        \* Client.EmbedTexts: "idle" | "running" | "returned"
    texts,        \* argument of the running EmbedTexts call
    batches,      \* splitIntoBatches(texts)
    dispatched,   \* loop iterations of the dispatch loop done so far
    resultOffset, \* the loop's running offset
    start,        \* batch goroutine -> its batchStart argument
    pc,           \* batch goroutine -> position in the goroutine body
    out,          \* batch goroutine -> what embedBatch returned to it
    results,      \* the shared results slice
    firstErr,     \* the shared firstErr
    sem,          \* number of tokens in the semaphore channel
    wg,           \* WaitGroup counter
    ret,          \* what EmbedTexts returned: [vectors, err]
    firstDone,    \* history: first goroutine to enter the critical section
    firstFailed,  \* history: index of the first batch that entered the
                  \* critical section with a failed embedBatch, -1 if none
    failures,     \* history: number of batches whose embedBatch failed
    \* --- CachedClient ---
    cache,        \* the Cache: a map from cache key to vector
    cphase,       \* CachedClient.EmbedTexts: "idle" | "embedding" | "returned"
    ctexts,       \* its argument
    cached,       \* its local map cached (after the error fallback)
    uncachedTexts,    \* its local uncachedTexts
    uncachedIndices,  \* its local uncachedIndices (0-based)
    cret,         \* what it returned: [vectors, err]
    clientCalls,  \* history: arguments of its calls of Client.EmbedTexts
    clientRet,    \* history: what that call of Client.EmbedTexts returned
    getFailed,    \* history: Cache.GetMulti returned an error
    setFailed,    \* history: Cache.SetMulti returned an error
    \* --- visualization handlers ---
    stmtCount,        \* statements the statement repository holds for the project
    embeddingClient,  \* Server.embeddingClient: "set" | "nil"
    vreq,             \* the request being answered, or NoRequest
    vfault,           \* what goes wrong while it is served
    vresp,            \* its response
    kept,             \* the handler's local statements, as source indices
    docReads,         \* reads of the document repository during the request
    contradictionService, \* Server.contradictionService: "set" | "nil"
    vtrace,           \* history: the dimensions the request projected into
                      \* and handed to clustering, the collaborators it called
    \* --- similarity ---
    simPhase,         \* "idle" | "returned" | "topk"
    simEmbeddings,    \* FindSimilarPairs' embeddings argument
    simThreshold,     \* its threshold argument
    simPairs,         \* the list it returned
    simK,             \* TopKSimilar's k argument
    \* --- contradiction Service / Analyzer ---
    dconfig,      \* Service.config after NewService
    dphase,       \* DetectContradictions: "idle" | "dispatching" |
                  \* "collecting" | "returned"
    dctxDone,     \* its ctx is cancelled
    dfiltered,    \* the pairs handed to Analyzer.AnalyzePairs
    dnext,        \* pairs the dispatch loop has started a goroutine for
    dsem,         \* tokens in AnalyzePairs' sem
    dpc,          \* per started goroutine: "calling" | "done"
    resultChan,   \* AnalyzePairs' resultChan
    dreceived,    \* results the collecting loop has received
    dresults,     \* AnalyzePairs' local results
    dret,         \* what DetectContradictions returned: [results, err]
    doutcome,     \* history: per pair id, what its AnalyzePair returned
                  \* (id 0 while it has not returned)
    dcancelled,   \* history: ctx was cancelled during the call
    \* --- handleUpload over the documents table ---
    documents,    \* rows of the documents table: [id, project, hash]
    uploads,      \* per handleUpload request: where it is and what it holds
    statementRows, \* rows of the statements table: [document, position]
    \* --- anomaly Service ---
    anomalyConfig,  \* Service.config after NewService
    lastSet,        \* history: the last SetThreshold call, [threshold, before]
    \* --- auth PostgresRepository ---
    users,        \* rows of the users table: [id, email]
    authCall,     \* the repository call made last: [op, arg, fault]
    authRet,      \* what it returned: [user, err]
    \* --- concurrent DetectAnomalies on one Service ---
    trees,        \* IsolationForest.Trees: per tree the statement set it
                  \* was built from, 0 for a nil entry
    detections,   \* per DetectAnomalies call: where it is and what it saw
    \* --- KMeans.Fit ---
    kmPhase,      \* "idle" | "iterating" | "returned"
    kmData,       \* the embeddings, one-dimensional
    Centroids,    \* KMeans.Centroids
    Labels,       \* KMeans.Labels
    Inertia,      \* KMeans.Inertia
    prevInertia,  \* Fit's prevInertia
    kmIter,       \* Fit's iter
    kmUpdate,     \* history: the last update step, [done, before, counts]
    \* --- findElbow ---
    inertias,     \* the inertia curve findElbow is called with
    elbow,        \* what it returned, 0 before it has
    \* --- KeywordExtractor.ExtractKeywords ---
    kwPhase,      \* "idle" | "returned"
    kwTexts,      \* the texts, each a sequence of words
    kwTopK,       \* the topK argument
    keywords,     \* the keywords returned: [Word, Score]
    \* --- semantic projection ---
    semPhase,      \* "idle" | "projected" | "panicked"
    semWords,      \* the embedding the provider returned for each anchor word
    semEmbeddings, \* the statement embeddings
    semAxes,       \* the axes FindSemanticAxes built
    semRaw,        \* result of ProjectToAxes before normalizeCoordinates
    semCoords,     \* what ProjectToAxes returned
    \* --- Service.DetectAnomalies, one call at a time ---
    scPhase,       \* "idle" | "returned"
    scEmbeddings,  \* the embeddings of the statements
    scResults,     \* the AnomalyResults returned: [Index, Score, IsAnomaly]
    \* --- the project routes behind auth.Middleware ---
    accDocuments,  \* rows of the documents table: [id, project]
    accReq,        \* the last request: [endpoint, user, project, document]
    accResp        \* its answer: [status, returned, modified], the last two
                   \* the projects whose rows were sent back or changed

embedVars == <<client, ctxDone, phase, texts, batches, dispatched,
               resultOffset, start, pc, out, results, firstErr, sem, wg,
               ret, firstDone, firstFailed, failures>>

cacheVars == <<cache, cphase, ctexts, cached, uncachedTexts, uncachedIndices,
               cret, clientCalls, clientRet, getFailed, setFailed>>

vizVars == <<stmtCount, embeddingClient, vreq, vfault, vresp, kept, docReads,
             contradictionService, vtrace>>

simVars == <<simPhase, simEmbeddings, simThreshold, simPairs, simK>>

contraVars == <<dconfig, dphase, dctxDone, dfiltered, dnext, dsem, dpc,
                resultChan, dreceived, dresults, dret, doutcome, dcancelled>>

uploadVars == <<documents, uploads, statementRows>>

anomalyVars == <<anomalyConfig, lastSet>>

authVars == <<users, authCall, authRet>>

forestVars == <<trees, detections>>

kmeansVars ==
    <<kmPhase, kmData, Centroids, Labels, Inertia, prevInertia, kmIter,
      kmUpdate>>

elbowVars == <<inertias, elbow>>

keywordsVars == <<kwPhase, kwTexts, kwTopK, keywords>>

semanticVars ==
    <<semPhase, semWords, semEmbeddings, semAxes, semRaw, semCoords>>

scoredVars == <<scPhase, scEmbeddings, scResults>>

accessVars == <<accDocuments, accReq, accResp>>

vars ==
    <<embedVars, cacheVars, vizVars, simVars, contraVars, uploadVars,
      anomalyVars, authVars, forestVars, kmeansVars, elbowVars,
      keywordsVars, semanticVars, scoredVars, accessVars>>

\* What the steps of one component leave alone.
embedOthers ==
    <<cacheVars, vizVars, simVars, contraVars, uploadVars, anomalyVars,
      authVars, forestVars, kmeansVars, elbowVars, keywordsVars,
      semanticVars, scoredVars, accessVars>>
cacheOthers ==
    <<vizVars, simVars, contraVars, uploadVars, anomalyVars, authVars,
      forestVars, kmeansVars, elbowVars, keywordsVars, semanticVars,
      scoredVars, accessVars>>
vizOthers ==
    <<embedVars, cacheVars, simVars, contraVars, uploadVars, anomalyVars,
      authVars, forestVars, kmeansVars, elbowVars, keywordsVars,
      semanticVars, scoredVars, accessVars>>
simOthers ==
    <<embedVars, cacheVars, vizVars, contraVars, uploadVars, anomalyVars,
      authVars, forestVars, kmeansVars, elbowVars, keywordsVars,
      semanticVars, scoredVars, accessVars>>
contraOthers ==
    <<embedVars, cacheVars, vizVars, simVars, uploadVars, anomalyVars,
      authVars, forestVars, kmeansVars, elbowVars, keywordsVars,
      semanticVars, scoredVars, accessVars>>
uploadOthers ==
    <<embedVars, cacheVars, vizVars, simVars, contraVars, anomalyVars,
      authVars, forestVars, kmeansVars, elbowVars, keywordsVars,
      semanticVars, scoredVars, accessVars>>
anomalyOthers ==
    <<embedVars, cacheVars, vizVars, simVars, contraVars, uploadVars,
      authVars, forestVars, kmeansVars, elbowVars, keywordsVars,
      semanticVars, scoredVars, accessVars>>
authOthers ==
    <<embedVars, cacheVars, vizVars, simVars, contraVars, uploadVars,
      anomalyVars, forestVars, kmeansVars, elbowVars, keywordsVars,
      semanticVars, scoredVars, accessVars>>
forestOthers ==
    <<embedVars, cacheVars, vizVars, simVars, contraVars, uploadVars,
      anomalyVars, authVars, kmeansVars, elbowVars, keywordsVars,
      semanticVars, scoredVars, accessVars>>
kmeansOthers ==
    <<embedVars, cacheVars, vizVars, simVars, contraVars, uploadVars,
      anomalyVars, authVars, forestVars, elbowVars, keywordsVars,
      semanticVars, scoredVars, accessVars>>
elbowOthers ==
    <<embedVars, cacheVars, vizVars, simVars, contraVars, uploadVars,
      anomalyVars, authVars, forestVars, kmeansVars, keywordsVars,
      semanticVars, scoredVars, accessVars>>
keywordsOthers ==
    <<embedVars, cacheVars, vizVars, simVars, contraVars, uploadVars,
      anomalyVars, authVars, forestVars, kmeansVars, elbowVars,
      semanticVars, scoredVars, accessVars>>
semanticOthers ==
    <<embedVars, cacheVars, vizVars, simVars, contraVars, uploadVars,
      anomalyVars, authVars, forestVars, kmeansVars, elbowVars,
      keywordsVars, scoredVars, accessVars>>
scoredOthers ==
    <<embedVars, cacheVars, vizVars, simVars, contraVars, uploadVars,
      anomalyVars, authVars, forestVars, kmeansVars, elbowVars,
      keywordsVars, semanticVars, accessVars>>
accessOthers ==
    <<embedVars, cacheVars, vizVars, simVars, contraVars, uploadVars,
      anomalyVars, authVars, forestVars, kmeansVars, elbowVars,
      keywordsVars, semanticVars, scoredVars>>

\* ------------------------------------------------------------------------
\* Client.splitIntoBatches
\* ------------------------------------------------------------------------
RECURSIVE splitFrom(_, _, _)
splitFrom(ts, batchSize, i) ==
    IF i >= Len(ts) THEN <<>>
    ELSE LET end == IF i + batchSize > Len(ts) THEN Len(ts) ELSE i + batchSize
         IN  <<SubSeq(ts, i + 1, end)>> \o splitFrom(ts, batchSize, i + batchSize)

splitIntoBatches(ts, batchSize) == splitFrom(ts, batchSize, 0)

\* ------------------------------------------------------------------------
\* Client.embedBatch: the response's data entries are written into the
\* batch's slots by their index field.
\* ------------------------------------------------------------------------
\* A response of the remote that carries one entry per input, in the order
\* given by the permutation perm of 1..Len(bt).
ResponseData(bt, perm) ==
    [k \in 1..Len(bt) |->
        [index |-> perm[k] - 1, embedding |-> RemoteEmbedding(bt[perm[k]])]]

Perms(n) == {p \in [1..n -> 1..n] : \A i, j \in 1..n : p[i] = p[j] => i = j}

ConformingResponses(bt) == {ResponseData(bt, p) : p \in Perms(Len(bt))}

\* Responses that need not conform: entries may be missing, and an index
\* may be repeated or lie outside 0..Len(bt)-1.
AnyResponses(bt) ==
    ConformingResponses(bt) \cup
    UNION {{[k \in 1..m |-> [index |-> ix[k],
                             embedding |-> RemoteEmbedding(bt[k])]] :
               ix \in [1..m -> (0 - 1)..Len(bt)]} : m \in 0..Len(bt)}

RECURSIVE fillFrom(_, _, _)
fillFrom(embeddings, data, k) ==
    IF k > Len(data) THEN embeddings
    ELSE fillFrom(IF data[k].index < Len(embeddings)
                  THEN [embeddings EXCEPT ![data[k].index + 1] = data[k].embedding]
                  ELSE embeddings,
                  data, k + 1)

\* mutant: slots filled in response order, ignoring the index field
fillInResponseOrder(n, data) ==
    [k \in 1..n |-> IF k <= Len(data) THEN data[k].embedding ELSE <<>>]

fillByIndex(n, data) == fillFrom([k \in 1..n |-> <<>>], data, 1)

\* What embedBatch returns: outcome "ok" carries the response data.
embedBatchReturn(bt, outcome, data) ==
    IF outcome = "ok"
    THEN [embeddings |-> fillByIndex(Len(bt), data), err |-> Nil]
    ELSE [embeddings |-> <<>>, err |-> outcome]

NoOut == [embeddings |-> <<>>, err |-> Nil]

\* ------------------------------------------------------------------------
\* Client.EmbedTexts
\* ------------------------------------------------------------------------
Goroutines == 1..Len(batches)

InFlight == {b \in DOMAIN pc : pc[b] \in {"inflight", "aborting"}}

\* The state an EmbedTexts call starts from (lines 91-105).
BeginEmbedTexts(ts) ==
    /\ texts' = ts
    /\ ctxDone' = FALSE
    /\ firstDone' = 0
    /\ firstFailed' = -1
    /\ failures' = 0
    /\ firstErr' = NoErr
    /\ sem' = 0
    /\ wg' = 0
    /\ dispatched' = 0
    /\ resultOffset' = 0
    /\ start' = <<>>
    /\ pc' = <<>>
    /\ out' = <<>>
    /\ IF Len(ts) = 0
       THEN /\ phase' = "returned"
            /\ batches' = <<>>
            /\ results' = <<>>
            /\ ret' = [vectors |-> <<>>, err |-> NoErr]
       ELSE /\ phase' = "running"
            /\ batches' = splitIntoBatches(ts, client.batchSize)
            /\ results' = [i \in 1..Len(ts) |-> <<>>]
            /\ ret' = NoRet

\* A caller invokes Client.EmbedTexts directly.
EmbedTexts ==
    /\ phase = "idle"
    /\ cphase = "idle"
    /\ \E ts \in ClientInputs : BeginEmbedTexts(ts)
    /\ UNCHANGED client
    /\ UNCHANGED embedOthers

\* EmbedTexts on a Client built with any option values.  With batchSize 0
\* the loop of splitIntoBatches (lines 161-167) never advances i, so the
\* call stays in it; with a negative batchSize texts[i:end] panics, and with
\* a negative maxConcurrent make(chan struct{}, n) does (line 100).
EmbedTextsAnyOptions ==
    /\ phase = "idle"
    /\ cphase = "idle"
    /\ \E ts \in ClientInputs :
           IF Len(ts) > 0 /\ (client.batchSize <= 0 \/ client.maxConcurrent < 0)
           THEN /\ texts' = ts
                /\ phase' = IF client.batchSize = 0 THEN "splitting"
                             ELSE "panicked"
                /\ UNCHANGED <<ctxDone, batches, dispatched, resultOffset,
                               start, pc, out, results, firstErr, sem, wg,
                               ret, firstDone, firstFailed, failures>>
           ELSE BeginEmbedTexts(ts)
    /\ UNCHANGED client
    /\ UNCHANGED embedOthers

\* One iteration of the dispatch loop (lines 106-131): wg.Add, batchStart,
\* resultOffset += len(batch), go func.
Dispatch ==
    /\ phase = "running"
    /\ dispatched < Len(batches)
    /\ LET idx == dispatched + 1 IN
        /\ wg' = wg + 1
        /\ start' = Append(start, resultOffset)
        /\ resultOffset' = resultOffset + Len(batches[idx])
        /\ pc' = Append(pc, "waiting")
        /\ out' = Append(out, NoOut)
        /\ dispatched' = idx
    /\ UNCHANGED <<client, ctxDone, phase, texts, batches, results, firstErr,
                   sem, ret, firstDone, firstFailed, failures>>
    /\ UNCHANGED embedOthers

\* mutant: the send proceeds although the channel is full
semHasRoomAlways(n, capacity) == TRUE

\* sem <- struct{}{} can proceed
semHasRoom(n, capacity) == n < capacity

\* Line 114: the goroutine acquires a slot and calls embedBatch, which
\* issues the HTTP request with the caller's context.
Acquire(b) ==
    /\ phase = "running"
    /\ b \in DOMAIN pc
    /\ pc[b] = "waiting"
    /\ semHasRoom(sem, client.maxConcurrent)
    /\ sem' = sem + 1
    /\ pc' = [pc EXCEPT ![b] = IF ctxDone THEN "aborting" ELSE "inflight"]
    /\ UNCHANGED <<client, ctxDone, phase, texts, batches, dispatched,
                   resultOffset, start, out, results, firstErr, wg, ret,
                   firstDone, firstFailed, failures>>
    /\ UNCHANGED embedOthers

\* embedBatch returns (line 117).  A request issued on a cancelled context
\* fails with the context's error; one in flight when the context is
\* cancelled is aborted or has its response already.
Outcomes(b) ==
    IF pc[b] = "aborting" THEN {"context canceled"}
    ELSE {"ok", "API error"} \cup (IF ctxDone THEN {"context canceled"} ELSE {})

\* Responses(bt) are the responses the remote can send for the batch bt.
\* embeddings[data.Index] with a negative index (lines 212-214) panics in
\* the batch goroutine, which ends the process.
embedBatchReturnsFrom(b, Responses(_)) ==
    /\ phase = "running"
    /\ b \in DOMAIN pc
    /\ pc[b] \in {"inflight", "aborting"}
    /\ \E outcome \in Outcomes(b) :
         \E data \in (IF outcome = "ok" THEN Responses(batches[b])
                      ELSE {<<>>}) :
            IF \E k \in DOMAIN data : data[k].index < 0
            THEN /\ phase' = "crashed"
                 /\ UNCHANGED <<out, pc>>
            ELSE /\ out' = [out EXCEPT ![b] =
                               embedBatchReturn(batches[b], outcome, data)]
                 /\ pc' = [pc EXCEPT ![b] = "returned"]
                 /\ UNCHANGED phase
    /\ UNCHANGED <<client, ctxDone, texts, batches, dispatched,
                   resultOffset, start, results, firstErr, sem, wg, ret,
                   firstDone, firstFailed, failures>>
    /\ UNCHANGED embedOthers

\* the remote answers as the API documents
EmbedBatchReturns(b) == embedBatchReturnsFrom(b, ConformingResponses)

\* the remote answers with any data: up to one entry per input, the k-th
\* holding the vector of the k-th input under any index
EmbedBatchReplies(b) == embedBatchReturnsFrom(b, AnyResponses)

RECURSIVE writeFrom(_, _, _, _)
writeFrom(res, st, embeddings, i) ==
    IF i > Len(embeddings) THEN res
    ELSE writeFrom([res EXCEPT ![st + i] = embeddings[i]], st, embeddings, i + 1)

\* mutant: a batch's vectors go to the first free slots
writeAtFirstFree(res, st, embeddings) ==
    LET free == {i \in 1..Len(res) : res[i] = <<>>}
        first == IF free = {} THEN 0
                 ELSE (CHOOSE i \in free : \A j \in free : i <= j) - 1
    IN  writeFrom(res, first, embeddings, 1)

\* lines 127-129: results[start+i] = emb
writeBatch(res, st, embeddings) == writeFrom(res, st, embeddings, 1)

\* mutant: every failure overwrites firstErr
recordsErrorAlways(err, first) == err # Nil

\* line 122: err != nil && firstErr == nil
recordsError(err, first) == err # Nil /\ first = NoErr

\* Lines 119-129: the critical section under mu.
Record(b) ==
    /\ phase = "running"
    /\ b \in DOMAIN pc
    /\ pc[b] = "returned"
    /\ IF recordsError(out[b].err, firstErr)
       THEN /\ firstErr' = [batch |-> b - 1, err |-> out[b].err]
            /\ UNCHANGED results
       ELSE /\ results' = writeBatch(results, start[b], out[b].embeddings)
            /\ UNCHANGED firstErr
    /\ firstDone' = IF firstDone = 0 THEN b ELSE firstDone
    /\ firstFailed' = IF out[b].err # Nil /\ firstFailed = -1 THEN b - 1
                      ELSE firstFailed
    /\ failures' = IF out[b].err # Nil THEN failures + 1 ELSE failures
    /\ out' = [out EXCEPT ![b] = NoOut]
    /\ pc' = [pc EXCEPT ![b] = "recorded"]
    /\ UNCHANGED <<client, ctxDone, phase, texts, batches, dispatched,
                   resultOffset, start, sem, wg, ret>>
    /\ UNCHANGED embedOthers

\* The deferred calls after the critical section: <-sem, then wg.Done().
Release(b) ==
    /\ phase = "running"
    /\ b \in DOMAIN pc
    /\ pc[b] = "recorded"
    /\ sem' = sem - 1
    /\ wg' = wg - 1
    /\ pc' = [pc EXCEPT ![b] = "done"]
    /\ UNCHANGED <<client, ctxDone, phase, texts, batches, dispatched,
                   resultOffset, start, out, results, firstErr, ret,
                   firstDone, firstFailed, failures>>
    /\ UNCHANGED embedOthers

\* Lines 133-139: wg.Wait() returns, EmbedTexts returns.
Return ==
    /\ phase = "running"
    /\ dispatched = Len(batches)
    /\ wg = 0
    /\ ret' = IF firstErr # NoErr
              THEN [vectors |-> <<>>, err |-> firstErr]
              ELSE [vectors |-> results, err |-> NoErr]
    /\ phase' = "returned"
    /\ UNCHANGED <<client, ctxDone, texts, batches, dispatched, resultOffset,
                   start, pc, out, results, firstErr, sem, wg, firstDone,
                   firstFailed, failures>>
    /\ UNCHANGED embedOthers

\* The caller cancels the context of the running call.
Cancel ==
    /\ phase = "running"
    /\ ~ctxDone
    /\ ctxDone' = TRUE
    /\ UNCHANGED <<client, phase, texts, batches, dispatched, resultOffset,
                   start, pc, out, results, firstErr, sem, wg, ret,
                   firstDone, firstFailed, failures>>
    /\ UNCHANGED embedOthers

\* The frame of a returned EmbedTexts call is gone.
EmbedFrameGone ==
    /\ ctxDone' = FALSE
    /\ phase' = "idle"
    /\ texts' = <<>>
    /\ batches' = <<>>
    /\ dispatched' = 0
    /\ resultOffset' = 0
    /\ start' = <<>>
    /\ pc' = <<>>
    /\ out' = <<>>
    /\ results' = <<>>
    /\ firstErr' = NoErr
    /\ sem' = 0
    /\ wg' = 0
    /\ ret' = NoRet
    /\ firstDone' = 0
    /\ firstFailed' = -1
    /\ failures' = 0
    /\ UNCHANGED client

\* The direct caller has taken the result of EmbedTexts.
EmbedTextsDone ==
    /\ phase = "returned"
    /\ cphase = "idle"
    /\ EmbedFrameGone
    /\ UNCHANGED embedOthers

ClientSteps ==
    \/ Dispatch
    \/ \E b \in 1..MaxTexts : Acquire(b)
    \/ \E b \in 1..MaxTexts : EmbedBatchReturns(b)
    \/ \E b \in 1..MaxTexts : Record(b)
    \/ \E b \in 1..MaxTexts : Release(b)
    \/ Return
    \/ Cancel

\* The steps of a call whose remote may answer with any data.
ClientStepsAnyRemote ==
    \/ Dispatch
    \/ \E b \in 1..MaxTexts : Acquire(b)
    \/ \E b \in 1..MaxTexts : EmbedBatchReplies(b)
    \/ \E b \in 1..MaxTexts : Record(b)
    \/ \E b \in 1..MaxTexts : Release(b)
    \/ Return
    \/ Cancel

\* NewClient with any int passed to WithBatchSize and WithMaxConcurrent
\* (lines 48-60 store the value as it is)
AnyClientOptions ==
    [batchSize : (0 - 1)..MaxBatchSize, maxConcurrent : (0 - 1)..MaxConcurrent]

\* NewClient with WithBatchSize / WithMaxConcurrent options.
ClientOptions ==
    [batchSize : 1..MaxBatchSize, maxConcurrent : 1..MaxConcurrent]

EmbedIdle ==
    /\ ctxDone = FALSE
    /\ phase = "idle"
    /\ texts = <<>>
    /\ batches = <<>>
    /\ dispatched = 0
    /\ resultOffset = 0
    /\ start = <<>>
    /\ pc = <<>>
    /\ out = <<>>
    /\ results = <<>>
    /\ firstErr = NoErr
    /\ sem = 0
    /\ wg = 0
    /\ ret = NoRet
    /\ firstDone = 0
    /\ firstFailed = -1
    /\ failures = 0

\* ------------------------------------------------------------------------
\* CachedClient.EmbedTexts
\* ------------------------------------------------------------------------
DefaultModel == "openai/text-embedding-3-small"

\* GenerateCacheKey: the first 16 hex digits of SHA-256(model ":" text).
\* The digest is kept symbolic; distinct texts of the model have distinct
\* keys.
GenerateCacheKey(model, text) == <<"sha256/16", model, text>>

RECURSIVE keysFrom(_, _, _)
keysFrom(model, ts, i) ==
    IF i > Len(ts) THEN <<>>
    ELSE <<GenerateCacheKey(model, ts[i])>> \o keysFrom(model, ts, i + 1)

\* Cache.GetMulti on the map m: the found entries of the requested keys,
\* and an error or Nil.
GetMulti(m, keys, fails) ==
    [found |-> [k \in {keys[i] : i \in 1..Len(keys)} \cap DOMAIN m |-> m[k]],
     err |-> IF fails THEN "cache read failed" ELSE Nil]

EmptyMap == [k \in {} |-> <<>>]

\* mutant: the map GetMulti returned with its error is used
cachedViewKeep(got) == got.found

\* lines 59-63: on a GetMulti error continue without cache
cachedView(got) == IF got.err # Nil THEN EmptyMap ELSE got.found

\* mutant: every text is taken as uncached
isUncachedAlways(m, key) == TRUE

\* line 69: _, ok := cached[key]; !ok
isUncached(m, key) == key \notin DOMAIN m

\* lines 66-73: the uncached texts and their (0-based) indices
RECURSIVE findUncached(_, _, _, _)
findUncached(m, ts, keys, i) ==
    IF i > Len(ts) THEN [texts |-> <<>>, indices |-> <<>>]
    ELSE LET rest == findUncached(m, ts, keys, i + 1) IN
         IF isUncached(m, keys[i])
         THEN [texts |-> <<ts[i]>> \o rest.texts,
               indices |-> <<i - 1>> \o rest.indices]
         ELSE rest

\* lines 84-87: toCache[keys[idx]] = newEmbeddings[i]; a later index with
\* the same key overwrites an earlier one.
RECURSIVE toCacheFrom(_, _, _, _, _)
toCacheFrom(m, keys, indices, newEmbeddings, i) ==
    IF i > Len(indices) THEN m
    ELSE LET key == keys[indices[i] + 1] IN
         toCacheFrom([k \in DOMAIN m \cup {key} |->
                         IF k = key THEN newEmbeddings[i] ELSE m[k]],
                     keys, indices, newEmbeddings, i + 1)

\* Cache.SetMulti on the map m
SetMulti(m, entries, fails) ==
    IF fails THEN m
    ELSE [k \in DOMAIN m \cup DOMAIN entries |->
             IF k \in DOMAIN entries THEN entries[k] ELSE m[k]]

\* lines 94-103: combine cached and new embeddings
RECURSIVE combineFrom(_, _, _, _, _)
combineFrom(m, keys, newEmbeddings, i, newIdx) ==
    IF i > Len(keys) THEN <<>>
    ELSE IF keys[i] \in DOMAIN m
         THEN <<m[keys[i]]>> \o combineFrom(m, keys, newEmbeddings, i + 1, newIdx)
         ELSE <<newEmbeddings[newIdx + 1]>>
              \o combineFrom(m, keys, newEmbeddings, i + 1, newIdx + 1)

\* Lines 47-78: keys, GetMulti, the uncached subset, and either the call
\* of the underlying client or, with nothing uncached, lines 94-105.
CachedEmbedTexts ==
    /\ cphase = "idle"
    /\ phase = "idle"
    /\ \E ts \in TextInputs, getFails \in BOOLEAN :
         LET keys == keysFrom(DefaultModel, ts, 1)
             got == GetMulti(cache, keys, getFails)
             view == cachedView(got)
             unc == findUncached(view, ts, keys, 1)
         IN  /\ ctexts' = ts
             /\ setFailed' = FALSE
             /\ clientRet' = NoRet
             /\ IF Len(ts) = 0
                THEN /\ cphase' = "returned"
                     /\ cret' = [vectors |-> <<>>, err |-> NoErr]
                     /\ cached' = EmptyMap
                     /\ uncachedTexts' = <<>>
                     /\ uncachedIndices' = <<>>
                     /\ clientCalls' = <<>>
                     /\ getFailed' = FALSE
                     /\ UNCHANGED embedVars
                ELSE /\ cached' = view
                     /\ getFailed' = getFails
                     /\ uncachedTexts' = unc.texts
                     /\ uncachedIndices' = unc.indices
                     /\ IF Len(unc.texts) > 0
                        THEN /\ clientCalls' = <<unc.texts>>
                             /\ cphase' = "embedding"
                             /\ cret' = NoRet
                             /\ BeginEmbedTexts(unc.texts)
                             /\ UNCHANGED client
                        ELSE /\ clientCalls' = <<>>
                             /\ cphase' = "returned"
                             /\ cret' = [vectors |-> combineFrom(view, keys, <<>>, 1, 0),
                                         err |-> NoErr]
                             /\ UNCHANGED embedVars
    /\ UNCHANGED cache
    /\ UNCHANGED cacheOthers

\* Lines 78-105: the underlying client has returned.
CachedFinish ==
    /\ cphase = "embedding"
    /\ phase = "returned"
    /\ IF ret.err # NoErr
       THEN /\ cret' = [vectors |-> <<>>, err |-> ret.err]
            /\ UNCHANGED <<cache, setFailed>>
       ELSE \E setFails \in BOOLEAN :
            LET keys == keysFrom(DefaultModel, ctexts, 1)
                toCache == toCacheFrom(EmptyMap, keys, uncachedIndices,
                                       ret.vectors, 1)
            IN  /\ cache' = SetMulti(cache, toCache, setFails)
                /\ setFailed' = setFails
                /\ cret' = [vectors |-> combineFrom(cached, keys, ret.vectors, 1, 0),
                            err |-> NoErr]
    /\ cphase' = "returned"
    /\ clientRet' = ret
    /\ UNCHANGED <<ctexts, cached, uncachedTexts, uncachedIndices,
                   clientCalls, getFailed>>
    /\ EmbedFrameGone
    /\ UNCHANGED cacheOthers

\* The caller has taken the result of CachedClient.EmbedTexts; the cache
\* outlives the call.
CachedEmbedTextsDone ==
    /\ cphase = "returned"
    /\ cphase' = "idle"
    /\ ctexts' = <<>>
    /\ cached' = EmptyMap
    /\ uncachedTexts' = <<>>
    /\ uncachedIndices' = <<>>
    /\ cret' = NoRet
    /\ clientCalls' = <<>>
    /\ clientRet' = NoRet
    /\ getFailed' = FALSE
    /\ setFailed' = FALSE
    /\ UNCHANGED <<cache, embedVars>>
    /\ UNCHANGED cacheOthers

CacheIdle ==
    /\ cache = EmptyMap
    /\ cphase = "idle"
    /\ ctexts = <<>>
    /\ cached = EmptyMap
    /\ uncachedTexts = <<>>
    /\ uncachedIndices = <<>>
    /\ cret = NoRet
    /\ clientCalls = <<>>
    /\ clientRet = NoRet
    /\ getFailed = FALSE
    /\ setFailed = FALSE

\* ------------------------------------------------------------------------
\* float64 arithmetic of sampleStatements.  A non-negative float64 is
\* [int, frac]: its integer part and its fraction as base-2^13 digits, most
\* significant first; integer part and fraction together hold at most 53
\* significant bits.  Integer parts and divisors stay below 2^18.
\* ------------------------------------------------------------------------
MantissaBits == 53
LimbBits == 13
Limb == 2 ^ LimbBits
FracLimbs == 5

BitLen(k) == Cardinality({b \in 0..30 : 2 ^ b <= k})

\* k digits of r / c after the point, for r < c, and the remainder left
RECURSIVE divLimbs(_, _, _)
divLimbs(r, c, k) ==
    IF k = 0 THEN [limbs |-> <<>>, rem |-> r]
    ELSE LET next == divLimbs((r * Limb) % c, c, k - 1)
         IN  [limbs |-> <<(r * Limb) \div c>> \o next.limbs, rem |-> next.rem]

\* the exact product i * 0.limbs, from the least significant digit
RECURSIVE mulLimbs(_, _, _, _)
mulLimbs(i, limbs, k, carry) ==
    IF k = 0 THEN [limbs |-> <<>>, carry |-> carry]
    ELSE LET v == i * limbs[k] + carry
             hi == mulLimbs(i, limbs, k - 1, v \div Limb)
         IN  [limbs |-> Append(hi.limbs, v % Limb), carry |-> hi.carry]

\* the j-th bit after the point
bitAt(limbs, j) ==
    (limbs[(j - 1) \div LimbBits + 1]
        \div 2 ^ (LimbBits - 1 - ((j - 1) % LimbBits))) % 2

\* the digit with only its b most significant bits
keepTop(limb, b) ==
    IF b >= LimbBits THEN limb
    ELSE IF b <= 0 THEN 0
    ELSE limb - (limb % (2 ^ (LimbBits - b)))

RECURSIVE addAt(_, _, _)
addAt(limbs, m, amount) ==
    IF m = 0 THEN [limbs |-> limbs, carry |-> amount]
    ELSE LET v == limbs[m] + amount
         IN  addAt([limbs EXCEPT ![m] = v % Limb], m - 1, v \div Limb)

\* one unit in the k-th bit after the point more
addUlp(whole, limbs, k) ==
    IF k = 0 THEN [int |-> whole + 1, frac |-> limbs]
    ELSE LET m == (k - 1) \div LimbBits + 1
             r == addAt(limbs, m, 2 ^ ((LimbBits * m) - k))
         IN  [int |-> whole + r.carry, frac |-> r.limbs]

\* whole.limbs (and something more below it when sticky) rounded to 53
\* significant bits: to nearest, ties to even
roundToNearestEven(whole, limbs, sticky) ==
    LET total == Len(limbs) * LimbBits
        k == MantissaBits - BitLen(whole)
        roundBit == bitAt(limbs, k + 1)
        rest == sticky \/ \E j \in (k + 2)..total : bitAt(limbs, j) = 1
        lastOdd == IF k = 0 THEN whole % 2 = 1 ELSE bitAt(limbs, k) = 1
        truncated == [m \in 1..Len(limbs) |->
                         keepTop(limbs[m], k - (LimbBits * (m - 1)))]
    IN  IF roundBit = 1 /\ (rest \/ lastOdd)
        THEN addUlp(whole, truncated, k)
        ELSE [int |-> whole, frac |-> truncated]

\* float64(n) / float64(c) for integers n >= 0, c > 0
float64Div(n, c) ==
    LET d == divLimbs(n % c, c, FracLimbs)
    IN  roundToNearestEven(n \div c, d.limbs, d.rem # 0)

\* float64(i) * f for an integer i >= 0
float64Mul(i, f) ==
    LET m == mulLimbs(i, f.frac, Len(f.frac), 0)
    IN  roundToNearestEven(i * f.int + m.carry, m.limbs, FALSE)

\* line 367: idx := int(float64(i) * step)
sampleIndex(i, step) == float64Mul(i, step).int

\* ------------------------------------------------------------------------
\* The visualization handlers (package api) and Service.GetVisualization
\* ------------------------------------------------------------------------
maxVisualizationPoints == 1000

\* Bounds on the modelled projects and requests
MaxSmallProject == 3
MaxOverBudget == 6
MaxWords == 4

\* A project is empty, small, or around the rendering budget.
StatementCounts ==
    0..MaxSmallProject
        \cup (maxVisualizationPoints - 1)..(maxVisualizationPoints + MaxOverBudget)

\* statements as the statement repository returns them: by source index
StoredStatements(n) == [i \in 1..n |-> i - 1]

\* sampleStatements (lines 358-371)
sampleStatements(statements, maxCount) ==
    IF Len(statements) <= maxCount THEN statements
    ELSE LET step == float64Div(Len(statements), maxCount)
         IN  [i \in 1..maxCount |-> statements[sampleIndex(i - 1, step) + 1]]

\* What can go wrong while one request is served: at most the first failure
\* met decides the response.
\*   "statements"  statementRepo.GetByProjectID returns an error
\*   "documents"   documentRepo.GetByProjectID returns an error
\*   "embedding"   the embedding provider returns an error
\*   "reduce"      the reducer returns an error
\*   "nilctx"      the document repository dereferences the nil context it
\*                 is handed by convertToModelStatements
Faults == {"none", "statements", "documents", "embedding", "reduce", "nilctx"}

ProjectIDs == {"uuid", "malformed"}
DimensionParams == {"", "2", "3", "4"}
Methods == {"", "pca", "semantic", "tsne"}
Bodies == {"json", "garbage"}

NoRequest ==
    [handler |-> "", project |-> "", dimensions |-> "", method |-> "",
     words |-> 0, body |-> ""]

GetRequests ==
    [handler : {"GET"}, project : ProjectIDs, dimensions : DimensionParams,
     method : Methods, words : 0..MaxWords, body : {""}]

ContradictionRequests ==
    [handler : {"CONTRADICTIONS"}, project : ProjectIDs, dimensions : {""},
     method : {""}, words : {0}, body : {""}]

AxesRequests ==
    [handler : {"POST"}, project : ProjectIDs, dimensions : {""},
     method : {""}, words : 0..MaxWords, body : Bodies]

NoReads == [byProject |-> 0, byID |-> 0]

\* nothing projected, nothing clustered, no collaborator called
NoTrace ==
    [projection |-> 0, clustering |-> 0, embedCalled |-> FALSE,
     classifierCalled |-> FALSE]

\* respondError / the Recoverer middleware's answer to a panic
respondError(status) ==
    [status |-> status, points |-> 0, dimensions |-> 0, method |-> ""]

respondJSON(points, dimensions, method) ==
    [status |-> 200, points |-> points, dimensions |-> dimensions,
     method |-> method]

NoResponse == respondError(0)

DefaultConfig == [DefaultMethod |-> "pca", DefaultDimensions |-> 2]

\* NewService: there is no projector only for an untyped nil embedder.  The
\* server hands it its *embeddings.Client, so the interface value is never
\* nil, whatever the pointer in it.  A projector is modelled by the embedder
\* it wraps.
NewService(embedder) ==
    [projector |-> IF embedder = "untyped nil" THEN "none" ELSE embedder]

\* SemanticProjector.FindSemanticAxes: one EmbedText per word.  EmbedText on
\* a nil *Client dereferences it.
FindSemanticAxes(projector, words, fault) ==
    IF words = 0 THEN [outcome |-> "ok", axes |-> 0]
    ELSE IF projector = "nil" THEN [outcome |-> "panic", axes |-> 0]
    ELSE IF fault = "embedding" THEN [outcome |-> "error", axes |-> 0]
    ELSE [outcome |-> "ok", axes |-> words]

\* Reducer.Reduce
Reduce(fault) == IF fault = "reduce" THEN "error" ELSE "ok"

VisError ==
    [outcome |-> "error", points |-> 0, dimensions |-> 0, embedCalled |-> FALSE]

\* Service.GetVisualization (service.go 57-128)
GetVisualization(service, embeddings, methodArg, dimensionsArg, axisWords, fault) ==
    IF embeddings = 0
    THEN [outcome |-> "ok", points |-> 0, dimensions |-> dimensionsArg,
          embedCalled |-> FALSE]
    ELSE
    LET method == IF methodArg = "" THEN DefaultConfig.DefaultMethod
                  ELSE methodArg
        dimensions == IF dimensionsArg = 0 THEN DefaultConfig.DefaultDimensions
                      ELSE dimensionsArg
    IN  IF method = "pca"
        THEN IF Reduce(fault) = "error" THEN VisError
             ELSE [outcome |-> "ok", points |-> embeddings,
                   dimensions |-> dimensions, embedCalled |-> FALSE]
        ELSE IF method = "semantic"
        THEN IF axisWords = 0 THEN VisError
             ELSE IF service.projector = "none" THEN VisError
             ELSE LET found == FindSemanticAxes(service.projector, axisWords, fault)
                  IN  IF found.outcome # "ok"
                      THEN [VisError EXCEPT !.outcome = found.outcome,
                                            !.embedCalled = TRUE]
                      ELSE IF Reduce(fault) = "error"
                      THEN [VisError EXCEPT !.embedCalled = TRUE]
                      ELSE [outcome |-> "ok", points |-> embeddings,
                            dimensions |-> found.axes, embedCalled |-> TRUE]
        ELSE VisError

\* convertToModelStatements (analysis.go 18-39): one documentRepo.GetByID
\* per statement, each with a nil context.  A repository that uses the
\* context panics on the first call.
convertToModelStatements(statements, fault) ==
    IF fault = "nilctx" /\ Len(statements) > 0
    THEN [outcome |-> "panic", lookups |-> 1]
    ELSE [outcome |-> "ok", lookups |-> Len(statements)]

\* What a handler leaves behind: its response, the statements it worked on
\* and the reads of the document repository it made.
Served(resp, statements, byProject, byID) ==
    [resp |-> resp, statements |-> statements,
     reads |-> [byProject |-> byProject, byID |-> byID], trace |-> NoTrace]

\* extractCoords (part_005 336-346): the length of each coordinate
extractCoords(dimensions) == IF dimensions = 3 THEN 3 ELSE 2

\* Lines 81-189 and 223-332, which the two handlers share but for the
\* method, the dimensions and the words they pass on.
renderVisualization(sampled, fault, method, dimensions, words) ==
    IF fault = "statements" THEN Served(respondError(500), <<>>, 0, 0)
    ELSE IF fault = "documents" THEN Served(respondError(500), sampled, 1, 0)
    ELSE IF Len(sampled) = 0
    THEN Served(respondJSON(0, dimensions, method), sampled, 1, 0)
    ELSE
    LET visResult == GetVisualization(NewService(embeddingClient),
                         Len(sampled), method, dimensions, words, fault)
        converted == convertToModelStatements(sampled, fault)
        called == [NoTrace EXCEPT !.embedCalled = visResult.embedCalled]
    IN  IF visResult.outcome # "ok"
        THEN [Served(respondError(500), sampled, 1, 0) EXCEPT !.trace = called]
        ELSE IF converted.outcome = "panic"
        THEN [Served(respondError(500), sampled, 1, converted.lookups)
                  EXCEPT !.trace = [called EXCEPT
                                       !.projection = visResult.dimensions]]
        ELSE [Served(respondJSON(Len(sampled), dimensions, method), sampled,
                     1, converted.lookups)
                  EXCEPT !.trace = [called EXCEPT
                                       !.projection = visResult.dimensions,
                                       !.clustering = extractCoords(dimensions)]]

\* handleGetVisualizationImpl, up to line 79, then the shared part
getVisualization(req, sampled, fault) ==
    IF req.project = "malformed" THEN Served(respondError(400), <<>>, 0, 0)
    ELSE LET dimensions == IF req.dimensions = "3" THEN 3 ELSE 2
             method == IF req.method = "" THEN "pca" ELSE req.method
         IN  renderVisualization(sampled, fault, method, dimensions, req.words)

\* handleSetAxesImpl, up to line 221, then the shared part
setAxes(req, sampled, fault) ==
    IF req.project = "malformed" THEN Served(respondError(400), <<>>, 0, 0)
    ELSE IF req.body = "garbage" THEN Served(respondError(400), <<>>, 0, 0)
    ELSE IF req.words = 0 \/ req.words > 3
    THEN Served(respondError(400), <<>>, 0, 0)
    ELSE IF embeddingClient = "nil" THEN Served(respondError(503), <<>>, 0, 0)
    ELSE renderVisualization(sampled, fault, "semantic", req.words, req.words)

\* handleGetContradictionsImpl (analysis.go 301-372).  AnalyzePairs never
\* returns an error, so neither does DetectContradictions.
getContradictions(req, statements, fault) ==
    IF req.project = "malformed" THEN Served(respondError(400), <<>>, 0, 0)
    ELSE IF contradictionService = "nil"
    THEN Served(respondError(503), <<>>, 0, 0)
    ELSE IF fault = "statements" THEN Served(respondError(500), <<>>, 0, 0)
    ELSE IF Len(statements) = 0
    THEN Served(respondJSON(0, 0, ""), statements, 0, 0)
    ELSE LET converted == convertToModelStatements(statements, fault)
         IN  IF converted.outcome = "panic"
             THEN Served(respondError(500), statements, 0, converted.lookups)
             ELSE [Served(respondJSON(0, 0, ""), statements, 0,
                          converted.lookups)
                       EXCEPT !.trace = [NoTrace EXCEPT
                                            !.classifierCalled = TRUE]]

Serve(req, fault, served) ==
    /\ vreq' = req
    /\ vfault' = fault
    /\ vresp' = served.resp
    /\ kept' = served.statements
    /\ docReads' = served.reads
    /\ vtrace' = served.trace
    /\ UNCHANGED <<stmtCount, embeddingClient, contradictionService>>
    /\ UNCHANGED vizOthers

handleGetVisualizationImpl ==
    /\ vreq = NoRequest
    /\ \E sampled \in {sampleStatements(StoredStatements(stmtCount),
                                        maxVisualizationPoints)} :
           \E req \in GetRequests, fault \in Faults :
               Serve(req, fault, getVisualization(req, sampled, fault))

handleSetAxesImpl ==
    /\ vreq = NoRequest
    /\ \E sampled \in {sampleStatements(StoredStatements(stmtCount),
                                        maxVisualizationPoints)} :
           \E req \in AxesRequests, fault \in Faults :
               Serve(req, fault, setAxes(req, sampled, fault))

handleGetContradictionsImpl ==
    /\ vreq = NoRequest
    /\ \E req \in ContradictionRequests,
          fault \in {"none", "statements", "nilctx"} :
           Serve(req, fault,
                 getContradictions(req, StoredStatements(stmtCount), fault))

VizIdle ==
    /\ vreq = NoRequest
    /\ vfault = "none"
    /\ vresp = NoResponse
    /\ kept = <<>>
    /\ docReads = NoReads
    /\ vtrace = NoTrace

\* The response is on the wire and the handler's frame is gone.
ResponseSent ==
    /\ vreq # NoRequest
    /\ vreq' = NoRequest
    /\ vfault' = "none"
    /\ vresp' = NoResponse
    /\ kept' = <<>>
    /\ docReads' = NoReads
    /\ vtrace' = NoTrace
    /\ UNCHANGED <<stmtCount, embeddingClient, contradictionService>>
    /\ UNCHANGED vizOthers

NoProject ==
    /\ stmtCount = 0
    /\ embeddingClient = "set"
    /\ contradictionService = "set"
    /\ VizIdle

\* ------------------------------------------------------------------------
\* package similarity: CosineSimilarity and FindSimilarPairs
\*
\* Embeddings are vectors of small integers whose norms are integers, so
\* that every float64 operation of CosineSimilarity up to its last one is
\* exact.  The last one, a division of two integers, yields the float64
\* nearest to their quotient; it is kept as that quotient in lowest terms,
\* <<numerator, denominator>>, and floats are compared as fractions.
\* ------------------------------------------------------------------------
MaxEmbeddings == 3

Vectors == {<<5, 0>>, <<3, 4>>, <<4, 3>>, <<-3, 4>>, <<0, 0>>, <<5>>}

EmbeddingInputs == SeqsUpTo(Vectors, MaxEmbeddings)

\* thresholds a caller passes: -0.5, 0, 0.6, 0.75, 1
Thresholds == {<<-1, 2>>, <<0, 1>>, <<3, 5>>, <<3, 4>>, <<1, 1>>}

RECURSIVE GCD(_, _)
GCD(a, b) == IF b = 0 THEN a ELSE GCD(b, a % b)

Abs(a) == IF a < 0 THEN -a ELSE a

\* the float64 a / b for integers a, b with b > 0
Quotient(a, b) ==
    LET g == GCD(Abs(a), b)
    IN  <<a \div g, b \div g>>

Float(a) == <<a, 1>>

\* x < y on floats
Less(x, y) == x[1] * y[2] < y[1] * x[2]

\* floats.Dot
RECURSIVE dotFrom(_, _, _)
dotFrom(a, b, i) ==
    IF i > Len(a) THEN 0 ELSE a[i] * b[i] + dotFrom(a, b, i + 1)

Dot(a, b) == dotFrom(a, b, 1)

\* math.Sqrt, of the squares it is given here
Sqrt(n) == CHOOSE r \in 0..n : r * r = n

\* CosineSimilarity (service.go 146-175)
CosineSimilarity(a, b) ==
    IF Len(a) # Len(b) THEN Float(0)
    ELSE IF Len(a) = 0 THEN Float(0)
    ELSE LET dotProduct == Dot(a, b)
             magA == Sqrt(Dot(a, a))
             magB == Sqrt(Dot(b, b))
         IN  IF magA = 0 \/ magB = 0 THEN Float(0)
             ELSE Quotient(dotProduct, magA * magB)

DefaultThreshold == <<3, 4>>

SimilarPair(i, j, sim) == [Idx1 |-> i, Idx2 |-> j, Similarity |-> sim]

\* mutant: a pair at the threshold is dropped
aboveThreshold(sim, threshold) == Less(threshold, sim)

\* line 246: sim >= threshold
atLeastThreshold(sim, threshold) == ~Less(sim, threshold)

\* The scan of the upper triangle (lines 243-254), from its step (i, j);
\* indices count from 0.
RECURSIVE scanFrom(_, _, _, _)
scanFrom(embeddings, threshold, i, j) ==
    IF i >= Len(embeddings) THEN <<>>
    ELSE IF j >= Len(embeddings)
    THEN scanFrom(embeddings, threshold, i + 1, i + 2)
    ELSE LET sim == CosineSimilarity(embeddings[i + 1], embeddings[j + 1])
             rest == scanFrom(embeddings, threshold, i, j + 1)
         IN  IF atLeastThreshold(sim, threshold)
             THEN <<SimilarPair(i, j, sim)>> \o rest
             ELSE rest

\* the less function handed to sort.Slice (line 258)
lessPair(p, q) == Less(q.Similarity, p.Similarity)

\* sort.Slice: the elements in some order that less agrees with.  The sort
\* is not stable: elements neither of which is less than the other come out
\* in an order its contract leaves open.
RECURSIVE sortedOrders(_)
sortedOrders(elements) ==
    IF elements = {} THEN {<<>>}
    ELSE UNION {
             {<<first>> \o rest : rest \in sortedOrders(elements \ {first})} :
             first \in {p \in elements : \A q \in elements : ~lessPair(q, p)}}

Range(seq) == {seq[k] : k \in DOMAIN seq}

sortSlice(pairs) == sortedOrders(Range(pairs))

\* FindSimilarPairs (service.go 230-262): the lists it can return
FindSimilarPairs(embeddings, thresholdArg) ==
    IF Len(embeddings) = 0 THEN {<<>>}
    ELSE LET threshold == IF ~Less(Float(0), thresholdArg)
                          THEN DefaultThreshold
                          ELSE thresholdArg
         IN  sortSlice(scanFrom(embeddings, threshold, 0, 1))

SimIdle ==
    /\ simPhase = "idle"
    /\ simEmbeddings = <<>>
    /\ simThreshold = Float(0)
    /\ simPairs = <<>>
    /\ simK = 0

CallFindSimilarPairs ==
    /\ simPhase = "idle"
    /\ \E embeddings \in EmbeddingInputs, threshold \in Thresholds :
           /\ simEmbeddings' = embeddings
           /\ simThreshold' = threshold
           /\ simPairs' \in FindSimilarPairs(embeddings, threshold)
    /\ simPhase' = "returned"
    /\ UNCHANGED simK
    /\ UNCHANGED simOthers

\* The caller is done with the list.
SimilarPairsDone ==
    /\ simPhase = "returned"
    /\ simPhase' = "idle"
    /\ simEmbeddings' = <<>>
    /\ simThreshold' = Float(0)
    /\ simPairs' = <<>>
    /\ UNCHANGED simK
    /\ UNCHANGED simOthers

\* Bound on TopKSimilar's k
MaxTopK == 3

\* pairs[:k]
Prefix(seq, k) == SubSeq(seq, 1, k)

\* TopKSimilar (service.go 300-313): the lists it can return
TopKSimilar(embeddings, k) ==
    IF Len(embeddings) = 0 \/ k <= 0 THEN {<<>>}
    ELSE {IF k < Len(pairs) THEN Prefix(pairs, k) ELSE pairs :
             pairs \in FindSimilarPairs(embeddings, Float(0))}

CallTopKSimilar ==
    /\ simPhase = "idle"
    /\ \E embeddings \in EmbeddingInputs, k \in (-1)..MaxTopK :
           /\ simEmbeddings' = embeddings
           /\ simK' = k
           /\ simPairs' \in TopKSimilar(embeddings, k)
    /\ simPhase' = "topk"
    /\ UNCHANGED simThreshold
    /\ UNCHANGED simOthers

\* The caller is done with the list.
TopKDone ==
    /\ simPhase = "topk"
    /\ simPhase' = "idle"
    /\ simEmbeddings' = <<>>
    /\ simPairs' = <<>>
    /\ simK' = 0
    /\ UNCHANGED simThreshold
    /\ UNCHANGED simOthers

\* ------------------------------------------------------------------------
\* package contradiction: Service.DetectContradictions over
\* Analyzer.AnalyzePairs
\*
\* A statement pair is [id, sim]: its position in the caller's list and
\* its similarity in tenths.  Confidences are in tenths too.
\* ------------------------------------------------------------------------
MaxPairs == 2

Similarities == {4, 6, 8}

PairLists ==
    UNION {{[i \in 1..n |-> [id |-> i, sim |-> sims[i]]] :
               sims \in [1..n -> Similarities]} : n \in 0..MaxPairs}

\* DefaultServiceConfig (part_009 22-28); MinSimilarity 0.5 is 5 tenths
DefaultServiceConfig ==
    [MaxPairsToAnalyze |-> 100, MinSimilarity |-> 5, MaxConcurrent |-> 5]

\* contradiction.NewService (part_009 31-46)
NewContradictionService(config) ==
    [MaxPairsToAnalyze |->
         IF config.MaxPairsToAnalyze <= 0
         THEN DefaultServiceConfig.MaxPairsToAnalyze
         ELSE config.MaxPairsToAnalyze,
     MinSimilarity |->
         IF config.MinSimilarity <= 0 THEN DefaultServiceConfig.MinSimilarity
         ELSE config.MinSimilarity,
     MaxConcurrent |->
         IF config.MaxConcurrent <= 0 THEN DefaultServiceConfig.MaxConcurrent
         ELSE config.MaxConcurrent]

ServiceConfigs ==
    [MaxPairsToAnalyze : {0, 1}, MinSimilarity : {0}, MaxConcurrent : {0, 1}]

\* filterPairs (part_009 111-121)
RECURSIVE filterPairs(_, _)
filterPairs(pairs, minSimilarity) ==
    IF pairs = <<>> THEN <<>>
    ELSE IF Head(pairs).sim >= minSimilarity
    THEN <<Head(pairs)>> \o filterPairs(Tail(pairs), minSimilarity)
    ELSE filterPairs(Tail(pairs), minSimilarity)

\* sort.Slice with less(a, b) == key[a] > key[b]: the elements in some
\* order that less agrees with; elements with equal keys come out in an
\* order its contract leaves open.
RECURSIVE sortedDescending(_, _)
sortedDescending(elements, key) ==
    IF elements = {} THEN {<<>>}
    ELSE UNION {
             {<<first>> \o rest :
                 rest \in sortedDescending(elements \ {first}, key)} :
             first \in {p \in elements : \A q \in elements : key[q] <= key[p]}}

\* DetectContradictions, lines 50-60: the lists it can hand to AnalyzePairs
analysed(pairs, config) ==
    LET filtered == filterPairs(pairs, config.MinSimilarity)
    IN  IF Len(filtered) > config.MaxPairsToAnalyze
        THEN {Prefix(sorted, config.MaxPairsToAnalyze) :
                 sorted \in sortedDescending(Range(filtered),
                                            [p \in Range(filtered) |-> p.sim])}
        ELSE {filtered}

\* What Analyzer.AnalyzePair returns for a pair: an error (the call or the
\* parsing failed), no contradiction (nil, nil), or a ContradictionResult
\* whose type, severity and confidence are the classifier's.
NoResult ==
    [id |-> 0, err |-> Nil, found |-> FALSE, Type |-> "", Severity |-> "",
     Confidence |-> 0]

Failed == [NoResult EXCEPT !.err = "error"]

Contradiction(type, severity, confidence) ==
    [NoResult EXCEPT !.found = TRUE, !.Type = type, !.Severity = severity,
                     !.Confidence = confidence]

Verdicts ==
    {Failed, NoResult, Contradiction("", "high", 9),
     Contradiction("direct", "high", 9), Contradiction("direct", "high", 5),
     Contradiction("direct", "low", 9), Contradiction("direct", "medium", 7)}

\* AnalyzePair under a cancelled context: callClaude fails
AnalyzePair(pair, verdict, cancelled) ==
    IF cancelled THEN [Failed EXCEPT !.id = pair.id]
    ELSE [verdict EXCEPT !.id = pair.id]

\* severityOrder (part_009 122-133)
severityOrder(severity) ==
    IF severity = "high" THEN 3
    ELSE IF severity = "medium" THEN 2
    ELSE IF severity = "low" THEN 1
    ELSE 0

severityOf(result) == severityOrder(result.Severity)

\* nothing returned yet
NoContradictions == [results |-> <<>>, err |-> Nil]

ContraIdle ==
    /\ dphase = "idle"
    /\ dctxDone = FALSE
    /\ dfiltered = <<>>
    /\ dnext = 0
    /\ dsem = 0
    /\ dpc = <<>>
    /\ resultChan = <<>>
    /\ dreceived = 0
    /\ dresults = <<>>
    /\ dret = NoContradictions
    /\ doutcome = <<>>
    /\ dcancelled = FALSE

\* DetectContradictions up to the call of AnalyzePairs, and AnalyzePairs up
\* to its dispatch loop (part_009 49-62, part_008 77-89)
DetectContradictions ==
    /\ dphase = "idle"
    /\ \E pairs \in PairLists : \E filtered \in analysed(pairs, dconfig) :
           /\ dfiltered' = filtered
           /\ doutcome' = [i \in 1..Len(pairs) |-> NoResult]
    /\ dphase' = "dispatching"
    /\ UNCHANGED <<dconfig, dctxDone, dnext, dsem, dpc, resultChan,
                   dreceived, dresults, dret, dcancelled>>
    /\ UNCHANGED contraOthers

\* sem <- struct{}{} can proceed
tokenFree(tokens, capacity) == tokens < capacity

\* One round of the dispatch loop (part_008 91-99): take a token, start the
\* goroutine; after the last pair go on to the collecting loop.
DispatchPair ==
    /\ dphase = "dispatching"
    /\ IF dnext < Len(dfiltered)
       THEN /\ tokenFree(dsem, dconfig.MaxConcurrent)
            /\ dsem' = dsem + 1
            /\ dnext' = dnext + 1
            /\ dpc' = Append(dpc, "calling")
            /\ UNCHANGED dphase
       ELSE /\ dphase' = "collecting"
            /\ UNCHANGED <<dsem, dnext, dpc>>
    /\ UNCHANGED <<dconfig, dctxDone, dfiltered, resultChan, dreceived,
                   dresults, dret, doutcome, dcancelled>>
    /\ UNCHANGED contraOthers

\* A goroutine's AnalyzePair returns; it sends the result on resultChan
\* (buffered for every pair, so the send never waits) and gives its token
\* back (part_008 93-98).
AnalyzePairReturns(g) ==
    /\ g \in DOMAIN dpc
    /\ dpc[g] = "calling"
    /\ \E verdict \in Verdicts :
           LET r == AnalyzePair(dfiltered[g], verdict, dctxDone)
           IN  /\ resultChan' = Append(resultChan, r)
               /\ doutcome' = [doutcome EXCEPT ![r.id] = r]
    /\ dpc' = [dpc EXCEPT ![g] = "done"]
    /\ dsem' = dsem - 1
    /\ UNCHANGED <<dconfig, dphase, dctxDone, dfiltered, dnext, dreceived,
                   dresults, dret, dcancelled>>
    /\ UNCHANGED contraOthers

\* mutant: a failed pair discards what was collected
collectOrReset(collected, r) ==
    IF r.err # Nil THEN <<>>
    ELSE IF r.found /\ r.Type # "" THEN Append(collected, r)
    ELSE collected

\* the body of the collecting loop (part_008 103-108)
collect(collected, r) ==
    IF r.err # Nil THEN collected
    ELSE IF r.found /\ r.Type # "" THEN Append(collected, r)
    ELSE collected

\* One round of the collecting loop (part_008 101-109)
Collect ==
    /\ dphase = "collecting"
    /\ dreceived < Len(dfiltered)
    /\ resultChan # <<>>
    /\ dresults' = collect(dresults, Head(resultChan))
    /\ resultChan' = Tail(resultChan)
    /\ dreceived' = dreceived + 1
    /\ UNCHANGED <<dconfig, dphase, dctxDone, dfiltered, dnext, dsem, dpc,
                   dret, doutcome, dcancelled>>
    /\ UNCHANGED contraOthers

\* AnalyzePairs returns (results, nil); DetectContradictions sorts by
\* severity and returns (part_008 111, part_009 63-73)
ReturnContradictions ==
    /\ dphase = "collecting"
    /\ dreceived = Len(dfiltered)
    /\ \E sorted \in sortedDescending(Range(dresults),
                                       [r \in Range(dresults) |-> severityOf(r)]) :
           dret' = [results |-> sorted, err |-> Nil]
    /\ dphase' = "returned"
    /\ UNCHANGED <<dconfig, dctxDone, dfiltered, dnext, dsem, dpc,
                   resultChan, dreceived, dresults, doutcome, dcancelled>>
    /\ UNCHANGED contraOthers

\* The caller cancels ctx while the call is running.
CancelDetection ==
    /\ dphase \in {"dispatching", "collecting"}
    /\ ~dctxDone
    /\ dctxDone' = TRUE
    /\ dcancelled' = TRUE
    /\ UNCHANGED <<dconfig, dphase, dfiltered, dnext, dsem, dpc, resultChan,
                   dreceived, dresults, dret, doutcome>>
    /\ UNCHANGED contraOthers

\* The caller is done with the result.
ContradictionsDone ==
    /\ dphase = "returned"
    /\ dphase' = "idle"
    /\ dctxDone' = FALSE
    /\ dfiltered' = <<>>
    /\ dnext' = 0
    /\ dsem' = 0
    /\ dpc' = <<>>
    /\ resultChan' = <<>>
    /\ dreceived' = 0
    /\ dresults' = <<>>
    /\ dret' = NoContradictions
    /\ doutcome' = <<>>
    /\ dcancelled' = FALSE
    /\ UNCHANGED dconfig
    /\ UNCHANGED contraOthers

AnalyzerSteps == \E g \in 1..MaxPairs : AnalyzePairReturns(g)

\* no detection running, on a Service built from the zero Config
NoDetection == dconfig = DefaultServiceConfig /\ ContraIdle

\* ------------------------------------------------------------------------
\* handleUpload (package api) over PostgresDocumentRepository
\*
\* Requests run concurrently; each call of the repository is one statement
\* on the database and is one step.  The documents table has a primary key
\* on id and no other constraint (part_000 41-51).
\* ------------------------------------------------------------------------
MaxUploads == 3

Requests == 1..MaxUploads

Projects == {"p1", "p2"}

\* the uploaded files, by the name of their content
Contents == {"alpha", "beta"}

\* extractStatements (analysis.go 556-565), as the number of statements it
\* finds: alpha has two paragraphs of minStatementLength bytes or more,
\* beta has none
extractStatements(content) == IF content = "alpha" THEN 2 ELSE 0

\* hex.EncodeToString(sha256.Sum256(content)): equal contents have equal
\* hashes, and the modelled contents do not collide
contentHash(content) == <<"sha256", content>>

NoDocument == [id |-> 0, project |-> "", hash |-> <<>>]

NoUpload ==
    [pc |-> "idle", project |-> "", hash |-> <<>>, status |-> 0,
     doc |-> NoDocument]

\* What the handler answers before it reads the file: 0 when every check
\* passes, else the status of the check that fails (lines 30-88).
Prechecks == {0, 400, 403, 404, 500}

\* handleUpload up to the hash of the content (lines 28-92)
ReceiveUpload(r) ==
    /\ uploads[r].pc = "idle"
    /\ \E project \in Projects, content \in Contents, failed \in Prechecks :
           uploads' = [uploads EXCEPT ![r] =
               IF failed # 0
               THEN [NoUpload EXCEPT !.pc = "done", !.project = project,
                                     !.status = failed]
               ELSE [NoUpload EXCEPT !.pc = "GetByHash", !.project = project,
                                     !.hash = contentHash(content)]]
    /\ UNCHANGED <<documents, statementRows>>
    /\ UNCHANGED uploadOthers

\* the rows GetByHash's query selects (document.go 146-151)
rowsByHash(project, hash) ==
    {d \in documents : d.project = project /\ d.hash = hash}

\* PostgresDocumentRepository.GetByHash (document.go 145-171): the first
\* row if there is one, (nil, nil) on sql.ErrNoRows, else the error
GetByHash(project, hash) ==
    IF rowsByHash(project, hash) = {}
    THEN {[doc |-> NoDocument, err |-> Nil]}
    ELSE {[doc |-> d, err |-> Nil] : d \in rowsByHash(project, hash)}

DatabaseError == [doc |-> NoDocument, err |-> "error"]

\* lines 94-109: look the hash up, answer "exists" if it is there
CheckExisting(r) ==
    /\ uploads[r].pc = "GetByHash"
    /\ \E found \in GetByHash(uploads[r].project, uploads[r].hash)
                        \cup {DatabaseError} :
           uploads' = [uploads EXCEPT ![r] =
               IF found.err # Nil THEN [@ EXCEPT !.pc = "done", !.status = 500]
               ELSE IF found.doc # NoDocument
               THEN [@ EXCEPT !.pc = "done", !.status = 200, !.doc = found.doc]
               ELSE [@ EXCEPT !.pc = "Create"]]
    /\ UNCHANGED <<documents, statementRows>>
    /\ UNCHANGED uploadOthers

\* uuid.New(): an id no row has
newID == Cardinality(documents) + 1

\* lines 111-122 with PostgresDocumentRepository.Create (document.go 44-72)
CreateDocument(r) ==
    /\ uploads[r].pc = "Create"
    /\ \/ /\ uploads' = [uploads EXCEPT ![r] =
                            [@ EXCEPT !.pc = "done", !.status = 500]]
          /\ UNCHANGED documents
       \/ \E doc \in {[id |-> newID, project |-> uploads[r].project,
                       hash |-> uploads[r].hash]} :
              /\ documents' = documents \cup {doc}
              /\ uploads' = [uploads EXCEPT ![r] =
                                [@ EXCEPT !.pc = "CreateBatch", !.doc = doc]]
    /\ UNCHANGED statementRows
    /\ UNCHANGED uploadOthers

\* PostgresStatementRepository.CreateBatch (statement.go 80-124): one
\* transaction, so the rows are inserted all or, on any error, not at all
CreateBatch(doc, n) ==
    {[rows |-> {[document |-> doc.id, position |-> k - 1] : k \in 1..n},
      err |-> Nil],
     [rows |-> {}, err |-> "error"]}

\* lines 124-146: the statements are saved and the upload is answered
SaveStatements(r) ==
    /\ uploads[r].pc = "CreateBatch"
    /\ \E n \in {extractStatements(uploads[r].hash[2])} :
           IF n > 0
           THEN \E saved \in CreateBatch(uploads[r].doc, n) :
                    /\ statementRows' = statementRows \cup saved.rows
                    /\ uploads' = [uploads EXCEPT ![r] =
                           [@ EXCEPT !.pc = "done",
                                     !.status = IF saved.err # Nil THEN 500
                                                ELSE 201]]
           ELSE /\ UNCHANGED statementRows
                /\ uploads' = [uploads EXCEPT ![r] =
                       [@ EXCEPT !.pc = "done", !.status = 201]]
    /\ UNCHANGED documents
    /\ UNCHANGED uploadOthers

UploadIdle ==
    /\ documents = {}
    /\ statementRows = {}
    /\ uploads = [r \in Requests |-> NoUpload]

UploadSteps ==
    \E r \in Requests :
        \/ ReceiveUpload(r)
        \/ CheckExisting(r)
        \/ CreateDocument(r)
        \/ SaveStatements(r)

\* ------------------------------------------------------------------------
\* package anomaly: the Service's threshold.  Thresholds are in tenths.
\* ------------------------------------------------------------------------
MaxThreshold == 12

MaxBelowZero == 2

\* the float64 1 of SetThreshold's guard, in tenths
One == 10

ThresholdValues == (0 - MaxBelowZero)..MaxThreshold

\* anomaly.DefaultConfig (part_003 25-33)
DefaultAnomalyConfig ==
    [Detector |-> "ensemble", K |-> 5, NumTrees |-> 100, SampleSize |-> 256,
     Threshold |-> 7]

AnomalyConfigs ==
    [Detector : {"ensemble", "distance"}, K : {0, 3}, NumTrees : {0, 10},
     SampleSize : {8}, Threshold : ThresholdValues]

\* anomaly.NewService (part_003 44-63)
NewAnomalyService(config) ==
    [Detector |-> config.Detector,
     K |-> IF config.K <= 0 THEN DefaultAnomalyConfig.K ELSE config.K,
     NumTrees |-> IF config.NumTrees <= 0 THEN DefaultAnomalyConfig.NumTrees
                  ELSE config.NumTrees,
     SampleSize |-> IF config.SampleSize <= 0
                    THEN DefaultAnomalyConfig.SampleSize
                    ELSE config.SampleSize,
     Threshold |-> IF config.Threshold <= 0
                   THEN DefaultAnomalyConfig.Threshold
                   ELSE config.Threshold]

\* no SetThreshold call yet
NoSet == [called |-> FALSE, threshold |-> 0, before |-> 0]

\* Service.SetThreshold (part_003 150-155)
SetThreshold ==
    /\ \E threshold \in ThresholdValues :
           /\ anomalyConfig' =
                  IF threshold > 0 /\ threshold <= One
                  THEN [anomalyConfig EXCEPT !.Threshold = threshold]
                  ELSE anomalyConfig
           /\ lastSet' = [called |-> TRUE, threshold |-> threshold,
                          before |-> anomalyConfig.Threshold]
    /\ UNCHANGED anomalyOthers

\* Service.GetThreshold (part_003 157-160)
GetThreshold == anomalyConfig.Threshold

\* the server's anomaly Service: NewService(DefaultConfig()), never set
AnomalyIdle ==
    /\ anomalyConfig = NewAnomalyService(DefaultAnomalyConfig)
    /\ lastSet = NoSet

\* ------------------------------------------------------------------------
\* package auth: PostgresRepository over the users table
\* ------------------------------------------------------------------------
UserIDs == {"id1", "id2", "id3"}

Emails == {"a@example.com", "b@example.com", "c@example.com"}

NoUser == [id |-> "", email |-> ""]

NoCall == [op |-> "", arg |-> "", fault |-> "none"]

NoAuthRet == [user |-> NoUser, err |-> Nil]

\* the database answers, or the statement fails (connection lost, ...)
DatabaseFaults == {"none", "error"}

\* PostgresRepository.Create (repository.go 22-47); users.email is UNIQUE
\* (part_000 7), uuid.New() is an id no row has
CreateUser ==
    /\ \E email \in Emails, fault \in DatabaseFaults :
           /\ authCall' = [op |-> "Create", arg |-> email, fault |-> fault]
           /\ IF fault = "error" \/ \E u \in users : u.email = email
              THEN /\ authRet' = [user |-> NoUser,
                                  err |-> "failed to create user"]
                   /\ UNCHANGED users
              ELSE \E id \in UserIDs \ {u.id : u \in users} :
                       /\ users' = users \cup {[id |-> id, email |-> email]}
                       /\ authRet' = [user |-> [id |-> id, email |-> email],
                                      err |-> Nil]
    /\ UNCHANGED authOthers

\* db.QueryRowContext(...).Scan(...): the selected row, sql.ErrNoRows when
\* the query selects none, or the error of the statement
QueryRow(rows, fault) ==
    IF fault = "error" THEN {[user |-> NoUser, err |-> "error"]}
    ELSE IF rows = {} THEN {[user |-> NoUser, err |-> "sql.ErrNoRows"]}
    ELSE {[user |-> u, err |-> Nil] : u \in rows}

\* mutant: no error is recognised as sql.ErrNoRows
neverNoRows(err) == FALSE

\* err == sql.ErrNoRows (repository.go 67, 94)
isNoRows(err) == err = "sql.ErrNoRows"

\* lines 66-73 and 93-100: what the lookups make of Scan's result
lookupResult(scanned, wrapped) ==
    IF scanned.err # Nil
    THEN IF isNoRows(scanned.err)
         THEN [user |-> NoUser, err |-> "ErrUserNotFound"]
         ELSE [user |-> NoUser, err |-> wrapped]
    ELSE scanned

\* PostgresRepository.GetByID (repository.go 50-74)
GetByID ==
    /\ \E id \in UserIDs, fault \in DatabaseFaults :
           /\ authCall' = [op |-> "GetByID", arg |-> id, fault |-> fault]
           /\ \E scanned \in QueryRow({u \in users : u.id = id}, fault) :
                  authRet' = lookupResult(scanned, "failed to get user by ID")
    /\ UNCHANGED users
    /\ UNCHANGED authOthers

\* PostgresRepository.GetByEmail (repository.go 77-101)
GetByEmail ==
    /\ \E email \in Emails, fault \in DatabaseFaults :
           /\ authCall' = [op |-> "GetByEmail", arg |-> email, fault |-> fault]
           /\ \E scanned \in QueryRow({u \in users : u.email = email}, fault) :
                  authRet' = lookupResult(scanned,
                                          "failed to get user by email")
    /\ UNCHANGED users
    /\ UNCHANGED authOthers

AuthIdle ==
    /\ users = {}
    /\ authCall = NoCall
    /\ authRet = NoAuthRet

\* ------------------------------------------------------------------------
\* package anomaly: DetectAnomalies calls running concurrently on the one
\* Service of the server, which holds one IsolationForest.  Call c works on
\* statement set c.  A step is one access to the forest's Trees field.
\* ------------------------------------------------------------------------
MaxTrees == 2

Callers == {1, 2}

Detectors == {"distance", "isolation", "ensemble"}

ForestConfigs ==
    [Detector : Detectors, K : {0}, NumTrees : 1..MaxTrees, SampleSize : {0},
     Threshold : {0}]

NoDetectAnomalies ==
    [pc |-> "idle", built |-> 0, scoredOn |-> {}, outcome |-> ""]

\* DetectAnomalies up to the choice of the detector (part_003 75-99); the
\* distance detector keeps no state between calls
CallDetectAnomalies(c) ==
    /\ detections[c].pc = "idle"
    /\ detections' = [detections EXCEPT ![c] =
           IF anomalyConfig.Detector = "distance"
           THEN [@ EXCEPT !.pc = "done", !.outcome = "scores"]
           ELSE [@ EXCEPT !.pc = "Fit"]]
    /\ UNCHANGED trees
    /\ UNCHANGED forestOthers

\* IsolationForest.Fit, f.Trees = make([]*IsolationTree, f.NumTrees)
\* (isolation.go 59)
FitAllocate(c) ==
    /\ detections[c].pc = "Fit"
    /\ trees' = [i \in 1..anomalyConfig.NumTrees |-> 0]
    /\ detections' = [detections EXCEPT ![c] = [@ EXCEPT !.pc = "build",
                                                         !.built = 0]]
    /\ UNCHANGED forestOthers

\* one round of Fit's loop (isolation.go 60-66): f.Trees[i] is a tree built
\* from a sample of this call's data
FitBuild(c) ==
    /\ detections[c].pc = "build"
    /\ trees' = [trees EXCEPT ![detections[c].built + 1] = c]
    /\ detections' = [detections EXCEPT ![c] =
           [@ EXCEPT !.built = @ + 1,
                     !.pc = IF detections[c].built + 1 = anomalyConfig.NumTrees
                            THEN "Score" ELSE "build"]]
    /\ UNCHANGED forestOthers

\* IsolationForest.Score (isolation.go 71-94) and the rest of the call:
\* every point's path length is taken in every tree of f.Trees; tree.Root
\* of a nil entry is a nil pointer dereference
Score(c) ==
    /\ detections[c].pc = "Score"
    /\ detections' = [detections EXCEPT ![c] =
           IF \E i \in DOMAIN trees : trees[i] = 0
           THEN [@ EXCEPT !.pc = "done", !.outcome = "panic"]
           ELSE [@ EXCEPT !.pc = "done", !.outcome = "scores",
                          !.scoredOn = Range(trees)]]
    /\ UNCHANGED trees
    /\ UNCHANGED forestOthers

\* The caller has its results.
DetectAnomaliesDone(c) ==
    /\ detections[c].pc = "done"
    /\ detections' = [detections EXCEPT ![c] = NoDetectAnomalies]
    /\ UNCHANGED trees
    /\ UNCHANGED forestOthers

\* NewIsolationForest (isolation.go 30-43): no trees yet
ForestIdle ==
    /\ trees = <<>>
    /\ detections = [c \in Callers |-> NoDetectAnomalies]

DetectionSteps ==
    \E c \in Callers :
        \/ CallDetectAnomalies(c)
        \/ FitAllocate(c)
        \/ FitBuild(c)
        \/ Score(c)
        \/ DetectAnomaliesDone(c)

\* ------------------------------------------------------------------------
\* KMeans.Fit on one-dimensional embeddings.  Coordinates are exact
\* fractions <<numerator, denominator>>.
\* ------------------------------------------------------------------------
MaxPoints == 3

MaxK == 2

Coordinates == {0, 1, 4}

PointLists == UNION {[1..n -> Coordinates] : n \in 0..MaxPoints}

\* NewKMeans (isolation.go 465-471)
MaxIter == 100

Tolerance == <<1, 10000>>

Plus(x, y) == Quotient(x[1] * y[2] + y[1] * x[2], x[2] * y[2])

Minus(x, y) == Quotient(x[1] * y[2] - y[1] * x[2], x[2] * y[2])

Times(x, y) == Quotient(x[1] * y[1], x[2] * y[2])

AbsFloat(x) == <<Abs(x[1]), x[2]>>

squaredEuclideanDistance(point, centroid) ==
    Times(Minus(point, centroid), Minus(point, centroid))

\* the distance of a point to the nearest of the centroids
RECURSIVE minDistFrom(_, _, _)
minDistFrom(point, centroids, j) ==
    IF j = Len(centroids) THEN squaredEuclideanDistance(point, centroids[j])
    ELSE LET dist == squaredEuclideanDistance(point, centroids[j])
             rest == minDistFrom(point, centroids, j + 1)
         IN  IF Less(rest, dist) THEN rest ELSE dist

\* the index of the first centroid at that distance (dist < minDist keeps
\* the earlier one on ties)
nearest(point, centroids) ==
    CHOOSE j \in DOMAIN centroids :
        /\ squaredEuclideanDistance(point, centroids[j])
               = minDistFrom(point, centroids, 1)
        /\ \A i \in 1..(j - 1) :
               squaredEuclideanDistance(point, centroids[i])
                   # minDistFrom(point, centroids, 1)

RECURSIVE sumFrom(_, _)
sumFrom(values, i) ==
    IF i > Len(values) THEN Float(0)
    ELSE Plus(values[i], sumFrom(values, i + 1))

\* kMeansPlusPlusInit (isolation.go 590-632): the first centroid is any
\* point; each further one is the first point j whose cumulative distance
\* reaches r, for an r in [0, totalDist): a point at a positive distance
\* from the centroids chosen so far, or the first point when r is 0.
RECURSIVE kMeansPlusPlusFrom(_, _, _)
kMeansPlusPlusFrom(data, centroids, k) ==
    IF Len(centroids) = k THEN {centroids}
    ELSE UNION {kMeansPlusPlusFrom(data, Append(centroids, data[j]), k) :
                   j \in {1} \cup {i \in DOMAIN data :
                                      Less(Float(0),
                                           minDistFrom(data[i], centroids, 1))}}

kMeansPlusPlusInit(data, k) ==
    UNION {kMeansPlusPlusFrom(data, <<data[first]>>, k) :
              first \in DOMAIN data}

NoUpdate == [done |-> FALSE, before |-> <<>>, counts |-> <<>>]

KMeansIdle ==
    /\ kmPhase = "idle"
    /\ kmData = <<>>
    /\ Centroids = <<>>
    /\ Labels = <<>>
    /\ Inertia = Float(0)
    /\ prevInertia = Float(0)
    /\ kmIter = 0
    /\ kmUpdate = NoUpdate

\* KMeans.Fit up to its loop (isolation.go 474-503)
KMeansFit ==
    /\ kmPhase = "idle"
    /\ \E embeddings \in PointLists, K \in 0..MaxK :
           IF Len(embeddings) = 0 \/ K <= 0
           THEN /\ kmPhase' = "returned"
                /\ UNCHANGED <<kmData, Centroids>>
           ELSE \E data \in {[i \in DOMAIN embeddings |-> Float(embeddings[i])]} :
                    /\ kmData' = data
                    /\ Centroids' \in kMeansPlusPlusInit(data,
                           IF K > Len(data) THEN Len(data) ELSE K)
                    /\ kmPhase' = "iterating"
    /\ Labels' = [i \in DOMAIN kmData' |-> 1]
    /\ UNCHANGED <<Inertia, prevInertia, kmIter, kmUpdate>>
    /\ UNCHANGED kmeansOthers

\* the members of a cluster
members(labels, cluster) == {i \in DOMAIN labels : labels[i] = cluster}

RECURSIVE sumOver(_, _)
sumOver(data, indices) ==
    IF indices = {} THEN Float(0)
    ELSE LET i == CHOOSE i \in indices : TRUE
         IN  Plus(data[i], sumOver(data, indices \ {i}))

\* the update step (isolation.go 526-544): newCentroids starts as zero
\* vectors, the members are added up, and a sum is scaled by 1/count only
\* where count > 0
update(data, labels, previous) ==
    [c \in DOMAIN previous |->
        IF Cardinality(members(labels, c)) > 0
        THEN Times(sumOver(data, members(labels, c)),
                   <<1, Cardinality(members(labels, c))>>)
        ELSE sumOver(data, members(labels, c))]

\* One round of Fit's loop (isolation.go 505-544)
Iterate ==
    /\ kmPhase = "iterating"
    /\ \E labels \in {[i \in DOMAIN kmData |-> nearest(kmData[i], Centroids)]} :
       \E inertia \in {sumFrom([i \in DOMAIN kmData |->
                                   minDistFrom(kmData[i], Centroids, 1)], 1)} :
           /\ Labels' = labels
           /\ Inertia' = inertia
           /\ IF kmIter > 0
                 /\ Less(AbsFloat(Minus(prevInertia, inertia)), Tolerance)
              THEN /\ kmPhase' = "returned"
                   /\ UNCHANGED <<Centroids, prevInertia, kmIter, kmUpdate>>
              ELSE /\ prevInertia' = inertia
                   /\ Centroids' = update(kmData, labels, Centroids)
                   /\ kmUpdate' =
                          [done |-> TRUE, before |-> Centroids,
                           counts |-> [c \in DOMAIN Centroids |->
                                          Cardinality(members(labels, c))]]
                   /\ kmIter' = kmIter + 1
                   /\ kmPhase' = IF kmIter + 1 < MaxIter THEN "iterating"
                                 ELSE "returned"
    /\ UNCHANGED kmData
    /\ UNCHANGED kmeansOthers

\* The caller has the labels.
KMeansDone ==
    /\ kmPhase = "returned"
    /\ kmPhase' = "idle"
    /\ kmData' = <<>>
    /\ Centroids' = <<>>
    /\ Labels' = <<>>
    /\ Inertia' = Float(0)
    /\ prevInertia' = Float(0)
    /\ kmIter' = 0
    /\ kmUpdate' = NoUpdate
    /\ UNCHANGED kmeansOthers

\* ------------------------------------------------------------------------
\* findElbow.  An inertia is an exact fraction; a float64 that is +Inf is
\* <<1, 0>> and a NaN is <<0, 0>>.
\* ------------------------------------------------------------------------
MaxCurve == 4

Inertias == {1, 2, 3, 5}

\* the curve 100, 50, 20, 18, 17, 16.5
ExampleCurve == <<<<100, 1>>, <<50, 1>>, <<20, 1>>, <<18, 1>>, <<17, 1>>,
                  <<33, 2>>>>

Curves ==
    {ExampleCurve} \cup
    UNION {{[i \in 1..n |-> Float(values[i])] : values \in [1..n -> Inertias]} :
              n \in 0..MaxCurve}

Infinity == <<1, 0>>

NaN == <<0, 0>>

\* x / y on float64, the sign of an infinity left out
Divide(x, y) ==
    IF y[1] = 0 THEN (IF x[1] = 0 THEN NaN ELSE Infinity)
    ELSE IF y[1] < 0 THEN Quotient((0 - x[1]) * y[2], x[2] * (0 - y[1]))
    ELSE Quotient(x[1] * y[2], x[2] * y[1])

\* x > y on float64: false when either is a NaN
Greater(x, y) ==
    IF x = NaN \/ y = NaN THEN FALSE
    ELSE IF y = Infinity THEN FALSE
    ELSE IF x = Infinity THEN TRUE
    ELSE Less(y, x)

\* the distance of point i (0-based) of the curve from the line through
\* (0, 1) and (1, 0), times sqrt(2): num of lines 406-412 with
\* nx1, ny1 = 0, 1 and nx2, ny2 = 1, 0.  Dividing by den = sqrt(2) keeps
\* the order.
lineDistance(curve, i) ==
    LET n == Len(curve)
        y2 == curve[n]
        xRange == Float(n - 1)
        yRange == Minus(curve[1], y2)
        x0 == Divide(Float(i), xRange)
        y0 == Divide(Minus(curve[i + 1], y2), yRange)
    IN  IF y0 = NaN THEN NaN
        ELSE IF y0 = Infinity THEN Infinity
        ELSE AbsFloat(Minus(Float(1), Plus(x0, y0)))

\* the loop of lines 403-420 from i on
RECURSIVE elbowFrom(_, _, _, _)
elbowFrom(curve, i, maxDist, found) ==
    IF i >= Len(curve) - 1 THEN found
    ELSE IF Greater(lineDistance(curve, i), maxDist)
    THEN elbowFrom(curve, i + 1, lineDistance(curve, i), i + 1)
    ELSE elbowFrom(curve, i + 1, maxDist, found)

\* findElbow (isolation.go 383-424)
findElbow(curve) ==
    IF Len(curve) <= 2 THEN Len(curve)
    ELSE elbowFrom(curve, 1, Float(0), 1)

ElbowIdle ==
    /\ inertias = <<>>
    /\ elbow = 0

CallFindElbow ==
    /\ elbow = 0
    /\ inertias = <<>>
    /\ \E curve \in Curves \ {<<>>} :
           /\ inertias' = curve
           /\ elbow' = findElbow(curve)
    /\ UNCHANGED elbowOthers

\* The caller has the result.
ElbowDone ==
    /\ inertias # <<>>
    /\ inertias' = <<>>
    /\ elbow' = 0
    /\ UNCHANGED elbowOthers

\* ------------------------------------------------------------------------
\* package clustering: KeywordExtractor.ExtractKeywords.  A text is the
\* sequence of its words.  A TF-IDF score is a combination of the natural
\* logarithms of 2 and 3 with exact fractions as coefficients,
\* [ln2 |-> a, ln3 |-> b] for a * ln 2 + b * ln 3.
\* ------------------------------------------------------------------------
MaxDocs == 2

MaxTextWords == 2

RawWords == {"Alpha", "beta", "gamma", "the", "ab"}

\* NewKeywordExtractor (keywords.go 17-22)
minLength == 3

\* strings.ToLower
ToLower(word) == IF word = "Alpha" THEN "alpha" ELSE word

\* len(word)
WordLength(word) ==
    IF word = "ab" THEN 2
    ELSE IF word = "the" THEN 3
    ELSE IF word = "beta" THEN 4
    ELSE 5

\* defaultStopWords
stopWords == {"the"}

\* word order of strings
WordRank(word) ==
    IF word = "ab" THEN 1
    ELSE IF word = "alpha" THEN 2
    ELSE IF word = "beta" THEN 3
    ELSE IF word = "gamma" THEN 4
    ELSE 5

KeywordTexts == UNION {[1..n -> RawWords] : n \in 0..MaxTextWords}

TextLists == UNION {[1..n -> KeywordTexts] : n \in 0..MaxDocs}

\* KeywordExtractor.tokenize (keywords.go 84-102)
RECURSIVE tokenize(_)
tokenize(text) ==
    IF text = <<>> THEN <<>>
    ELSE LET word == ToLower(Head(text))
         IN  IF WordLength(word) >= minLength /\ word \notin stopWords
             THEN <<word>> \o tokenize(Tail(text))
             ELSE tokenize(Tail(text))

ZeroScore == [ln2 |-> Float(0), ln3 |-> Float(0)]

\* math.Log(float64(n) / float64(df)) for 1 <= df <= n <= 4
Log(n, df) ==
    IF n = df THEN ZeroScore
    ELSE IF n = 2 * df THEN [ln2 |-> Float(1), ln3 |-> Float(0)]
    ELSE IF n = 3 * df THEN [ln2 |-> Float(0), ln3 |-> Float(1)]
    ELSE IF n = 4 * df THEN [ln2 |-> Float(2), ln3 |-> Float(0)]
    ELSE IF 2 * n = 3 * df THEN [ln2 |-> Float(-1), ln3 |-> Float(1)]
    ELSE [ln2 |-> Float(2), ln3 |-> Float(-1)]

ScorePlus(x, y) == [ln2 |-> Plus(x.ln2, y.ln2), ln3 |-> Plus(x.ln3, y.ln3)]

ScoreTimes(factor, x) ==
    [ln2 |-> Times(factor, x.ln2), ln3 |-> Times(factor, x.ln3)]

\* a * ln 2 + b * ln 3 > 0, with 1.58496 < ln 3 / ln 2 < 1.58497
Positive(x) ==
    LET a == x.ln2
        b == x.ln3
    IN  IF b[1] = 0 THEN a[1] > 0
        ELSE IF b[1] > 0
        THEN Less(Times(<<-158496, 100000>>, b), a)
        ELSE Less(a, Times(<<-158496, 100000>>, b))

\* x > y on scores
ScoreGreater(x, y) ==
    Positive(ScorePlus(x, ScoreTimes(Float(-1), y)))

occurrences(doc, word) == Cardinality({i \in DOMAIN doc : doc[i] = word})

\* KeywordExtractor.computeTFIDF (keywords.go 104-152)
RECURSIVE tfidfFrom(_, _, _)
tfidfFrom(docs, word, d) ==
    IF d > Len(docs) THEN ZeroScore
    ELSE IF occurrences(docs[d], word) = 0 THEN tfidfFrom(docs, word, d + 1)
    ELSE ScorePlus(
             ScoreTimes(Quotient(occurrences(docs[d], word), Len(docs[d])),
                        Log(Len(docs),
                            Cardinality({e \in DOMAIN docs :
                                            occurrences(docs[e], word) > 0}))),
             tfidfFrom(docs, word, d + 1))

computeTFIDF(docs) ==
    [word \in UNION {Range(docs[d]) : d \in DOMAIN docs} |->
        ScoreTimes(<<1, Len(docs)>>, tfidfFrom(docs, word, 1))]

\* ranging over the map and sort.Slice by Score alone (keywords.go 46-53):
\* the keywords in any order in which scores never increase
RECURSIVE keywordOrders(_)
keywordOrders(entries) ==
    IF entries = {} THEN {<<>>}
    ELSE UNION {
             {<<first>> \o rest : rest \in keywordOrders(entries \ {first})} :
             first \in {p \in entries :
                           \A q \in entries : ~ScoreGreater(q.Score, p.Score)}}

\* ExtractKeywords (keywords.go 31-61): the lists it can return
ExtractKeywords(kwInput, topK) ==
    IF Len(kwInput) = 0 THEN {<<>>}
    ELSE LET docs == [i \in DOMAIN kwInput |-> tokenize(kwInput[i])]
             tfidf == computeTFIDF(docs)
         IN  {IF topK > 0 /\ topK < Len(sorted) THEN Prefix(sorted, topK)
              ELSE sorted :
                 sorted \in keywordOrders({[Word |-> word, Score |-> tfidf[word]] :
                                              word \in DOMAIN tfidf})}

KeywordsIdle ==
    /\ kwPhase = "idle"
    /\ kwTexts = <<>>
    /\ kwTopK = 0
    /\ keywords = <<>>

CallExtractKeywords ==
    /\ kwPhase = "idle"
    /\ \E input \in TextLists, topK \in 0..MaxTextWords :
           /\ kwTexts' = input
           /\ kwTopK' = topK
           /\ keywords' \in ExtractKeywords(input, topK)
    /\ kwPhase' = "returned"
    /\ UNCHANGED keywordsOthers

\* The caller has the keywords.
KeywordsDone ==
    /\ kwPhase = "returned"
    /\ kwPhase' = "idle"
    /\ kwTexts' = <<>>
    /\ kwTopK' = 0
    /\ keywords' = <<>>
    /\ UNCHANGED keywordsOthers

\* ------------------------------------------------------------------------
\* package visualization: semantic axes and ProjectToAxes.  Embeddings are
\* integer vectors; indices of dimensions start at 1 here, at 0 in the code.
\* ------------------------------------------------------------------------
MaxAxisWords == 2

\* what EmbedText can return for an anchor word
WordEmbeddings == Vectors \cup {<<>>}

\* findMaxDimension (semantic.go 117-133): the first dimension with the
\* greatest absolute value, dimension 1 when all values are 0
RECURSIVE maxDimensionFrom(_, _, _, _)
maxDimensionFrom(embedding, i, maxIdx, maxVal) ==
    IF i > Len(embedding) THEN maxIdx
    ELSE IF Abs(embedding[i]) > maxVal
    THEN maxDimensionFrom(embedding, i + 1, i, Abs(embedding[i]))
    ELSE maxDimensionFrom(embedding, i + 1, maxIdx, maxVal)

findMaxDimension(embedding) == maxDimensionFrom(embedding, 1, 1, 0)

\* SemanticProjector.FindSemanticAxis (semantic.go 64-77), given the
\* embedding of the word; embedding[maxIdx] panics on an empty embedding
FindSemanticAxis(embedding) ==
    IF Len(embedding) = 0 THEN [panic |-> TRUE, Dimension |-> 0, MaxValue |-> 0]
    ELSE [panic |-> FALSE,
          Dimension |-> findMaxDimension(embedding),
          MaxValue |-> embedding[findMaxDimension(embedding)]]

\* the loops of ProjectToAxes (semantic.go 100-110)
projectRaw(embeddings, axes) ==
    [i \in DOMAIN embeddings |->
        [j \in DOMAIN axes |->
            IF axes[j].Dimension <= Len(embeddings[i])
            THEN embeddings[i][axes[j].Dimension]
            ELSE 0]]

columnMin(coords, j) ==
    CHOOSE v \in {coords[i][j] : i \in DOMAIN coords} :
        \A i \in DOMAIN coords : v <= coords[i][j]

columnMax(coords, j) ==
    CHOOSE v \in {coords[i][j] : i \in DOMAIN coords} :
        \A i \in DOMAIN coords : v >= coords[i][j]

\* normalizeCoordinates (reducer.go 101-140)
normalizeCoordinates(coords) ==
    IF Len(coords) = 0 THEN coords
    ELSE [i \in DOMAIN coords |->
             [j \in DOMAIN coords[i] |->
                 IF columnMax(coords, j) = columnMin(coords, j) THEN Float(0)
                 ELSE Minus(Quotient(2 * (coords[i][j] - columnMin(coords, j)),
                                     columnMax(coords, j) - columnMin(coords, j)),
                            Float(1))]]

\* ProjectToAxes (semantic.go 95-114)
ProjectToAxes(embeddings, axes) ==
    IF Len(embeddings) = 0 \/ Len(axes) = 0 THEN <<>>
    ELSE normalizeCoordinates(projectRaw(embeddings, axes))

SemanticIdle ==
    /\ semPhase = "idle"
    /\ semWords = <<>>
    /\ semEmbeddings = <<>>
    /\ semAxes = <<>>
    /\ semRaw = <<>>
    /\ semCoords = <<>>

\* FindSemanticAxes on the anchor words (semantic.go 80-92), then
\* SemanticReducer.Reduce with as many dimensions as axes (150-162).
SemanticProject ==
    /\ semPhase = "idle"
    /\ \E words \in SeqsUpTo(WordEmbeddings, MaxAxisWords) \ {<<>>},
          embeddings \in EmbeddingInputs :
           /\ semWords' = words
           /\ semEmbeddings' = embeddings
           /\ \E axes \in {[j \in DOMAIN words |-> FindSemanticAxis(words[j])]} :
                  IF \E j \in DOMAIN axes : axes[j].panic
                  THEN /\ semPhase' = "panicked"
                       /\ semAxes' = <<>>
                       /\ semRaw' = <<>>
                       /\ semCoords' = <<>>
                  ELSE /\ semPhase' = "projected"
                       /\ semAxes' = axes
                       /\ semRaw' = IF Len(embeddings) = 0 THEN <<>>
                                    ELSE projectRaw(embeddings, axes)
                       /\ semCoords' = ProjectToAxes(embeddings, axes)
    /\ UNCHANGED semanticOthers

\* The caller has the coordinates.
SemanticDone ==
    /\ semPhase # "idle"
    /\ semPhase' = "idle"
    /\ semWords' = <<>>
    /\ semEmbeddings' = <<>>
    /\ semAxes' = <<>>
    /\ semRaw' = <<>>
    /\ semCoords' = <<>>
    /\ UNCHANGED semanticOthers

\* ------------------------------------------------------------------------
\* package anomaly: the scores of DetectAnomalies, for one call at a time on
\* statement sets of up to MaxScored statements.  Scores are exact
\* fractions, except where a logarithm or a power is irrational: there the
\* value is a fraction rounded to four decimals.
\* ------------------------------------------------------------------------
MaxScored == 2

ScoredVectors == {<<0, 0>>, <<3, 0>>, <<3, 4>>}

ScoredInputs == SeqsUpTo(ScoredVectors, MaxScored)

ScoredConfigs ==
    [Detector : Detectors, K : {0, 1}, NumTrees : {0, 1}, SampleSize : {0, 1, 2},
     Threshold : {0, 8}]

\* euclideanDistance (service.go 218-230)
euclideanDistance(a, b) ==
    IF Len(a) # Len(b) THEN 0
    ELSE Sqrt(Dot([i \in DOMAIN a |-> a[i] - b[i]],
                  [i \in DOMAIN a |-> a[i] - b[i]]))

\* the sum of the k smallest of the distances (service.go 188-199)
RECURSIVE sumNearest(_, _)
sumNearest(distances, k) ==
    IF k = 0 \/ distances = <<>> THEN 0
    ELSE LET m == CHOOSE i \in DOMAIN distances :
                      \A j \in DOMAIN distances : distances[i] <= distances[j]
         IN  distances[m]
             + sumNearest([j \in 1..(Len(distances) - 1) |->
                              IF j < m THEN distances[j] ELSE distances[j + 1]],
                          k - 1)

\* normalizeScores (service.go 233-261)
normalizeScores(scores) ==
    IF Len(scores) = 0 THEN scores
    ELSE LET minScore == CHOOSE s \in Range(scores) :
                             \A t \in Range(scores) : ~Less(t, s)
             maxScore == CHOOSE s \in Range(scores) :
                             \A t \in Range(scores) : ~Less(s, t)
         IN  IF Minus(maxScore, minScore) = Float(0)
             THEN [i \in DOMAIN scores |-> <<1, 2>>]
             ELSE [i \in DOMAIN scores |->
                      Divide(Minus(scores[i], minScore),
                             Minus(maxScore, minScore))]

\* DistanceAnomalyDetector.Detect (service.go 161-215)
Detect(embeddings, kParam) ==
    LET n == Len(embeddings)
        k0 == IF kParam <= 0 THEN 5 ELSE kParam
        k == IF k0 >= n THEN n - 1 ELSE k0
        others(i) == [j \in 1..(n - 1) |->
                         euclideanDistance(embeddings[i],
                             embeddings[IF j < i THEN j ELSE j + 1])]
        actualK == IF k > n - 1 THEN n - 1 ELSE k
    IN  IF n = 0 THEN <<>>
        ELSE normalizeScores(
                 [i \in 1..n |->
                     IF actualK > 0
                     THEN Quotient(sumNearest(others(i), actualK), actualK)
                     ELSE Float(0)])

\* expectedPathLength (isolation.go 175-185); above 2 it is
\* 2 (ln(n - 1) + 0.5772156649) - 2 (n - 1) / n, here for the n in use
expectedPathLength(n) ==
    CASE n <= 1 -> Float(0)
      [] n = 2 -> Float(1)
      [] n = 3 -> <<12074, 10000>>
      [] n = 256 -> <<102448, 10000>>

\* math.Pow(2, -x) for the x in use: 2^(-1/10.2448) = 0.9346
Pow2Neg(x) ==
    CASE x = NaN -> NaN
      [] x = Infinity -> Float(0)
      [] x[2] = 1 -> <<1, 2 ^ x[1]>>
      [] x = Divide(Float(1), expectedPathLength(256)) -> <<4673, 5000>>

\* int(math.Ceil(math.Log2(float64(sampleSize)))) (isolation.go 57)
RECURSIVE ceilLog2From(_, _)
ceilLog2From(sampleSize, d) ==
    IF 2 ^ d >= sampleSize THEN d ELSE ceilLog2From(sampleSize, d + 1)

Leaf(n) ==
    [Size |-> n, SplitFeature |-> 0, SplitValue |-> 0, Children |-> <<>>]

\* buildIsolationTree (isolation.go 97-154) on the points of data with
\* index in idx: the trees the random numbers can give.  Features count
\* from 1; a split value is kept doubled, and the halves between the
\* integers stand for every value strictly between them.
RECURSIVE buildIsolationTree(_, _, _, _)
buildIsolationTree(data, idx, depth, maxDepth) ==
    LET n == Cardinality(idx)
        first == CHOOSE i \in idx : \A j \in idx : i <= j
    IN  IF n <= 1 \/ depth >= maxDepth THEN {Leaf(n)}
        ELSE IF Len(data[first]) = 0 THEN {Leaf(n)}
        ELSE UNION {
            LET minVal == CHOOSE v \in {data[i][feature] : i \in idx} :
                              \A i \in idx : v <= data[i][feature]
                maxVal == CHOOSE v \in {data[i][feature] : i \in idx} :
                              \A i \in idx : v >= data[i][feature]
            IN  IF minVal = maxVal THEN {Leaf(n)}
                ELSE UNION {
                    LET left == {i \in idx : 2 * data[i][feature] < splitValue}
                    IN  IF left = {} \/ left = idx THEN {Leaf(n)}
                        ELSE {[Size |-> 0, SplitFeature |-> feature,
                               SplitValue |-> splitValue,
                               Children |-> <<l, r>>] :
                                 l \in buildIsolationTree(data, left, depth + 1,
                                                          maxDepth),
                                 r \in buildIsolationTree(data, idx \ left,
                                                          depth + 1, maxDepth)} :
                    splitValue \in (2 * minVal)..(2 * maxVal - 1)} :
            feature \in 1..Len(data[first])}

\* pathLength (isolation.go 157-172); a node has both children or none
RECURSIVE pathLength(_, _, _)
pathLength(point, node, currentDepth) ==
    IF node.Children = <<>>
    THEN Plus(Float(currentDepth), expectedPathLength(node.Size))
    ELSE IF 2 * point[node.SplitFeature] < node.SplitValue
    THEN pathLength(point, node.Children[1], currentDepth + 1)
    ELSE pathLength(point, node.Children[2], currentDepth + 1)

\* sampleData (isolation.go 188-210): the indices of the sample
sampleData(data, sampleSize) ==
    IF sampleSize >= Len(data) THEN {DOMAIN data}
    ELSE {idx \in SUBSET DOMAIN data : Cardinality(idx) = sampleSize}

\* IsolationForest.Fit (isolation.go 46-67): the forests it can build, a
\* tree being kept as the path length it gives to each point of data
IsolationFit(data, config) ==
    LET n == Len(data)
        sampleSize == IF config.SampleSize > n THEN n ELSE config.SampleSize
        maxDepth == ceilLog2From(sampleSize, 0)
        paths == {[i \in DOMAIN data |-> pathLength(data[i], tree, 0)] :
                     tree \in UNION {buildIsolationTree(data, idx, 0, maxDepth) :
                                        idx \in sampleData(data, sampleSize)}}
    IN  [1..config.NumTrees -> paths]

\* the path lengths of point i in the trees lo..hi, added up
RECURSIVE sumPaths(_, _, _, _)
sumPaths(Trees, i, lo, hi) ==
    IF lo > hi THEN Float(0)
    ELSE IF lo = hi THEN Trees[lo][i]
    ELSE Plus(sumPaths(Trees, i, lo, (lo + hi) \div 2),
              sumPaths(Trees, i, ((lo + hi) \div 2) + 1, hi))

\* IsolationForest.Score (isolation.go 71-94)
IsolationScore(data, Trees, config) ==
    IF Len(data) = 0 \/ Len(Trees) = 0 THEN <<>>
    ELSE [i \in DOMAIN data |->
             Pow2Neg(Divide(Divide(sumPaths(Trees, i, 1, Len(Trees)),
                                   Float(Len(Trees))),
                            expectedPathLength(config.SampleSize)))]

\* (x + y) / 2.0 on float64
halfSum(x, y) ==
    IF x = NaN \/ y = NaN THEN NaN ELSE Divide(Plus(x, y), Float(2))

\* Service.ensembleScore (part_003 132-147), for each forest Fit can build
ensembleScore(embeddings, config) ==
    {[i \in DOMAIN embeddings |->
         halfSum(Detect(embeddings, config.K)[i],
                 IsolationScore(embeddings, Trees, config)[i])] :
        Trees \in IsolationFit(embeddings, config)}

\* score >= threshold on float64, the threshold in tenths
atLeast(score, threshold) ==
    score # NaN /\ ~Less(score, <<threshold, 10>>)

\* Service.DetectAnomalies (part_003 75-114): the results it can return
DetectAnomalies(embeddings, config) ==
    IF Len(embeddings) = 0 THEN {<<>>}
    ELSE {[i \in DOMAIN scores |->
              [Index |-> i - 1, Score |-> scores[i],
               IsAnomaly |-> atLeast(scores[i], config.Threshold)]] :
             scores \in
                 CASE config.Detector = "distance" ->
                          {Detect(embeddings, config.K)}
                   [] config.Detector = "isolation" ->
                          {IsolationScore(embeddings, Trees, config) :
                              Trees \in IsolationFit(embeddings, config)}
                   [] OTHER -> ensembleScore(embeddings, config)}

ScoredIdle ==
    /\ scPhase = "idle"
    /\ scEmbeddings = <<>>
    /\ scResults = <<>>

CallDetectAnomaliesAlone ==
    /\ scPhase = "idle"
    /\ \E embeddings \in ScoredInputs :
           /\ scEmbeddings' = embeddings
           /\ scResults' \in DetectAnomalies(embeddings, anomalyConfig)
    /\ scPhase' = "returned"
    /\ UNCHANGED scoredOthers

\* The caller has the results.
ScoredDone ==
    /\ scPhase = "returned"
    /\ scPhase' = "idle"
    /\ scEmbeddings' = <<>>
    /\ scResults' = <<>>
    /\ UNCHANGED scoredOthers

\* ------------------------------------------------------------------------
\* package api: the routes under /api/v1/projects/{projectID}
\* (server.go 131-156).  auth.Middleware has put the claims of the user
\* into the context of every request that reaches a handler.  The
\* statements of a project are kept with its documents.
\* ------------------------------------------------------------------------
MaxAccessDocs == 3

AccessUsers == {"alice", "bob"}

\* the projects table
ProjectRows == {[id |-> "p1", owner |-> "alice"], [id |-> "p2", owner |-> "bob"]}

\* project ids a URL can name: p3 is a well-formed id of no project
UrlProjects == {"p1", "p2", "p3"}

DocumentIDs == 1..MaxAccessDocs

\* routes whose handler reads the rows of the project named in the URL
ReadEndpoints ==
    {"visualization", "visualization/axes", "clusters", "similar-pairs",
     "anomalies", "contradictions", "documents"}

NoAccess == [endpoint |-> "", user |-> "", project |-> "", document |-> 0]

NoAnswer == [status |-> 0, returned |-> {}, modified |-> {}]

\* projectRepo.GetByID: the row, or none
projectByID(pid) == {p \in ProjectRows : p.id = pid}

\* documentRepo.GetByProjectID / statementRepo.GetByProjectID
rowsOfProject(pid) == {d \in accDocuments : d.project = pid}

\* handleGetVisualizationImpl (part_005 53-91), handleSetAxesImpl (part_005
\* 193-236), handleGetClustersImpl, handleGetSimilarPairsImpl,
\* handleGetAnomaliesImpl, handleGetContradictionsImpl (analysis.go 137,
\* 200, 255, 301) and handleListDocuments (part_007 150-185): the project id
\* is parsed and the rows of that project are fetched and answered.  refused
\* is the status of a check of the handler that fails (database error,
\* service not configured, too few statements), 0 if none does.
ServeProjectData ==
    /\ \E endpoint \in ReadEndpoints, user \in AccessUsers,
          pid \in UrlProjects, refused \in {0, 400, 500, 503} :
           /\ accReq' = [endpoint |-> endpoint, user |-> user, project |-> pid,
                         document |-> 0]
           /\ accResp' =
                  IF refused # 0 THEN [NoAnswer EXCEPT !.status = refused]
                  ELSE [status |-> 200,
                        returned |-> {d.project : d \in rowsOfProject(pid)},
                        modified |-> {}]
    /\ UNCHANGED accDocuments
    /\ UNCHANGED accessOthers

\* handleDeleteDocument (part_007 188-215): the statements and the document
\* with the id of the URL are deleted
DeleteDocument ==
    /\ \E user \in AccessUsers, pid \in UrlProjects, did \in DocumentIDs,
          failed \in BOOLEAN :
           /\ accReq' = [endpoint |-> "delete document", user |-> user,
                         project |-> pid, document |-> did]
           /\ IF failed
              THEN /\ accResp' = [NoAnswer EXCEPT !.status = 500]
                   /\ UNCHANGED accDocuments
              ELSE /\ accResp' =
                          [status |-> 200, returned |-> {},
                           modified |-> {d.project : d \in
                                           {e \in accDocuments : e.id = did}}]
                   /\ accDocuments' = {d \in accDocuments : d.id # did}
    /\ UNCHANGED accessOthers

\* the check of handleUpload (part_007 41-57) and of handleGetProjectImpl
\* (part_006 116-133): 404 without the project, 403 for another user
ownerCheck(user, pid) ==
    IF projectByID(pid) = {} THEN 404
    ELSE IF \E p \in projectByID(pid) : p.owner # user THEN 403
    ELSE 0

\* handleUpload (part_007 28-147), a new document stored
UploadDocument ==
    /\ \E user \in AccessUsers, pid \in UrlProjects,
          did \in DocumentIDs \ {d.id : d \in accDocuments} :
           /\ accReq' = [endpoint |-> "upload", user |-> user, project |-> pid,
                         document |-> 0]
           /\ IF ownerCheck(user, pid) # 0
              THEN /\ accResp' = [NoAnswer EXCEPT !.status = ownerCheck(user, pid)]
                   /\ UNCHANGED accDocuments
              ELSE /\ accResp' = [status |-> 201, returned |-> {},
                                  modified |-> {pid}]
                   /\ accDocuments' =
                          accDocuments \cup {[id |-> did, project |-> pid]}
    /\ UNCHANGED accessOthers

\* handleGetProjectImpl (part_006 104-142)
GetProject ==
    /\ \E user \in AccessUsers, pid \in UrlProjects :
           /\ accReq' = [endpoint |-> "project", user |-> user, project |-> pid,
                         document |-> 0]
           /\ accResp' =
                  IF ownerCheck(user, pid) # 0
                  THEN [NoAnswer EXCEPT !.status = ownerCheck(user, pid)]
                  ELSE [status |-> 200, returned |-> {pid}, modified |-> {}]
    /\ UNCHANGED accDocuments
    /\ UNCHANGED accessOthers

AccessIdle ==
    /\ accDocuments = {}
    /\ accReq = NoAccess
    /\ accResp = NoAnswer

\* ------------------------------------------------------------------------
\* Specifications
\* ------------------------------------------------------------------------
\* the components that share no state with the others have done nothing
LaterIdle ==
    /\ ForestIdle /\ KMeansIdle /\ ElbowIdle /\ KeywordsIdle /\ SemanticIdle
    /\ ScoredIdle
    /\ AccessIdle

\* none of the later components has done anything
RestIdle == UploadIdle /\ AnomalyIdle /\ AuthIdle /\ LaterIdle

\* Direct calls of a Client built with options.
InitEmbed ==
    /\ client \in ClientOptions
    /\ EmbedIdle
    /\ CacheIdle
    /\ NoProject
    /\ SimIdle
    /\ NoDetection
    /\ RestIdle

NextEmbed == EmbedTexts \/ ClientSteps \/ EmbedTextsDone

SpecEmbed == InitEmbed /\ [][NextEmbed]_vars

\* The same calls with a remote that may answer with any data.
NextEmbedAnyRemote == EmbedTexts \/ ClientStepsAnyRemote \/ EmbedTextsDone

SpecEmbedAnyRemote == InitEmbed /\ [][NextEmbedAnyRemote]_vars

\* Calls of a Client built with any option values; every goroutine that
\* can take a step takes it, and every HTTP request returns.
InitEmbedAnyOptions ==
    /\ client \in AnyClientOptions
    /\ EmbedIdle
    /\ CacheIdle
    /\ NoProject
    /\ SimIdle
    /\ NoDetection
    /\ RestIdle

NextEmbedAnyOptions == EmbedTextsAnyOptions \/ ClientSteps \/ EmbedTextsDone

ClientFairness ==
    /\ WF_vars(Dispatch)
    /\ WF_vars(Return)
    /\ \A b \in 1..MaxTexts :
           /\ WF_vars(Acquire(b))
           /\ WF_vars(EmbedBatchReturns(b))
           /\ WF_vars(Record(b))
           /\ WF_vars(Release(b))

SpecEmbedAnyOptions ==
    InitEmbedAnyOptions /\ [][NextEmbedAnyOptions]_vars /\ ClientFairness

\* Calls of a CachedClient that wraps NewClient(apiKey).
InitCached ==
    /\ client = [batchSize |-> defaultBatchSize,
                 maxConcurrent |-> defaultMaxConcurrent]
    /\ EmbedIdle
    /\ CacheIdle
    /\ NoProject
    /\ SimIdle
    /\ NoDetection
    /\ RestIdle

NextCached ==
    CachedEmbedTexts \/ ClientSteps \/ CachedFinish \/ CachedEmbedTextsDone

SpecCached == InitCached /\ [][NextCached]_vars

\* The visualization endpoints of a server over one project
InitViz ==
    /\ client = [batchSize |-> defaultBatchSize,
                 maxConcurrent |-> defaultMaxConcurrent]
    /\ EmbedIdle
    /\ CacheIdle
    /\ stmtCount \in StatementCounts
    /\ embeddingClient \in {"set", "nil"}
    /\ contradictionService \in {"set", "nil"}
    /\ VizIdle
    /\ SimIdle
    /\ NoDetection
    /\ RestIdle

NextViz ==
    \/ handleGetVisualizationImpl
    \/ handleSetAxesImpl
    \/ handleGetContradictionsImpl
    \/ ResponseSent

SpecViz == InitViz /\ [][NextViz]_vars

\* Calls of FindSimilarPairs
InitSim ==
    /\ client = [batchSize |-> defaultBatchSize,
                 maxConcurrent |-> defaultMaxConcurrent]
    /\ EmbedIdle
    /\ CacheIdle
    /\ NoProject
    /\ SimIdle
    /\ NoDetection
    /\ RestIdle

NextSim == CallFindSimilarPairs \/ SimilarPairsDone

SpecSim == InitSim /\ [][NextSim]_vars

\* Calls of TopKSimilar
NextTopK == CallTopKSimilar \/ TopKDone

SpecTopK == InitSim /\ [][NextTopK]_vars

\* Calls of DetectContradictions on a Service built by NewService.
InitContra ==
    /\ client = [batchSize |-> defaultBatchSize,
                 maxConcurrent |-> defaultMaxConcurrent]
    /\ EmbedIdle
    /\ CacheIdle
    /\ NoProject
    /\ SimIdle
    /\ dconfig \in {NewContradictionService(config) : config \in ServiceConfigs}
    /\ ContraIdle
    /\ RestIdle

NextContra ==
    \/ DetectContradictions
    \/ DispatchPair
    \/ AnalyzerSteps
    \/ Collect
    \/ ReturnContradictions
    \/ CancelDetection
    \/ ContradictionsDone

SpecContra == InitContra /\ [][NextContra]_vars

\* The components of the first specifications at rest.
OthersUntouched ==
    /\ client = [batchSize |-> defaultBatchSize,
                 maxConcurrent |-> defaultMaxConcurrent]
    /\ EmbedIdle
    /\ CacheIdle
    /\ NoProject
    /\ SimIdle
    /\ NoDetection

\* The other components at rest.
OthersIdle == OthersUntouched /\ LaterIdle

\* Concurrent handleUpload requests on an empty documents table.
InitUpload == OthersIdle /\ UploadIdle /\ AnomalyIdle /\ AuthIdle

NextUpload == UploadSteps

SpecUpload == InitUpload /\ [][NextUpload]_vars

\* An anomaly Service built by NewService from any Config.
InitAnomaly ==
    /\ OthersIdle
    /\ UploadIdle
    /\ anomalyConfig \in {NewAnomalyService(config) : config \in AnomalyConfigs}
    /\ lastSet = NoSet
    /\ AuthIdle

NextAnomaly == SetThreshold

SpecAnomaly == InitAnomaly /\ [][NextAnomaly]_vars

\* Calls of a PostgresRepository on an empty users table.
InitAuth == OthersIdle /\ UploadIdle /\ AnomalyIdle /\ AuthIdle

NextAuth == CreateUser \/ GetByID \/ GetByEmail

SpecAuth == InitAuth /\ [][NextAuth]_vars

\* DetectAnomalies calls on one Service, two at a time.
InitForest ==
    /\ OthersUntouched
    /\ UploadIdle
    /\ anomalyConfig \in {NewAnomalyService(config) : config \in ForestConfigs}
    /\ lastSet = NoSet
    /\ AuthIdle
    /\ LaterIdle

NextForest == DetectionSteps

SpecForest == InitForest /\ [][NextForest]_vars

\* Calls of KMeans.Fit.
InitKMeans ==
    /\ OthersUntouched
    /\ UploadIdle
    /\ AnomalyIdle
    /\ AuthIdle
    /\ LaterIdle

NextKMeans == KMeansFit \/ Iterate \/ KMeansDone

SpecKMeans == InitKMeans /\ [][NextKMeans]_vars

\* Calls of findElbow.
InitElbow ==
    /\ OthersUntouched
    /\ UploadIdle
    /\ AnomalyIdle
    /\ AuthIdle
    /\ LaterIdle

NextElbow == CallFindElbow \/ ElbowDone

SpecElbow == InitElbow /\ [][NextElbow]_vars

\* Calls of ExtractKeywords.
InitKeywords ==
    /\ OthersUntouched
    /\ UploadIdle
    /\ AnomalyIdle
    /\ AuthIdle
    /\ LaterIdle

NextKeywords == CallExtractKeywords \/ KeywordsDone

SpecKeywords == InitKeywords /\ [][NextKeywords]_vars

\* Semantic projections.
InitSemantic ==
    /\ OthersUntouched
    /\ UploadIdle
    /\ AnomalyIdle
    /\ AuthIdle
    /\ LaterIdle

NextSemantic == SemanticProject \/ SemanticDone

SpecSemantic == InitSemantic /\ [][NextSemantic]_vars

\* DetectAnomalies calls, one at a time, on a Service of any configuration.
InitScored ==
    /\ OthersUntouched
    /\ UploadIdle
    /\ anomalyConfig \in {NewAnomalyService(config) : config \in ScoredConfigs}
    /\ lastSet = NoSet
    /\ AuthIdle
    /\ LaterIdle

NextScored == CallDetectAnomaliesAlone \/ ScoredDone

SpecScored == InitScored /\ [][NextScored]_vars

\* Requests of two users, each owning one project with one document.
InitAccess ==
    /\ OthersUntouched
    /\ UploadIdle
    /\ AnomalyIdle
    /\ AuthIdle
    /\ ForestIdle
    /\ KMeansIdle
    /\ ElbowIdle
    /\ KeywordsIdle
    /\ SemanticIdle
    /\ ScoredIdle
    /\ accDocuments = {[id |-> 1, project |-> "p1"], [id |-> 2, project |-> "p2"]}
    /\ accReq = NoAccess
    /\ accResp = NoAnswer

NextAccess == ServeProjectData \/ DeleteDocument \/ UploadDocument \/ GetProject

SpecAccess == InitAccess /\ [][NextAccess]_vars

\* ------------------------------------------------------------------------
\* Properties of Client.EmbedTexts (SpecEmbed)
\* ------------------------------------------------------------------------

\* C1: whatever the order in which the batch goroutines complete, a
\* successful Client.EmbedTexts returns as many vectors as it was given
\* texts, and element i is the vector the remote returned for texts[i].
C1_PositionalAlignment ==
    (phase = "returned" /\ ret.err = NoErr) =>
        /\ Len(ret.vectors) = Len(texts)
        /\ \A i \in 1..Len(texts) : ret.vectors[i] = RemoteEmbedding(texts[i])

\* A successful call of several batches whose last batch completed first.
C1_Witness ==
    /\ phase = "returned"
    /\ ret.err = NoErr
    /\ Len(batches) >= 2
    /\ firstDone = Len(batches)
    /\ texts[1] # texts[Len(texts)]

\* C2: when a batch fails the call still waits for every dispatched batch,
\* then returns the first recorded failure and no vectors; without a
\* failure it returns the full result; a later failure never replaces the
\* recorded one.
C2_FirstErrorWins ==
    /\ firstErr.batch = firstFailed
    /\ (phase = "returned" /\ texts # <<>>) =>
          /\ Len(pc) = Len(batches)
          /\ \A b \in DOMAIN pc : pc[b] = "done"
          /\ IF failures > 0
             THEN /\ ret.vectors = <<>>
                  /\ ret.err # NoErr
                  /\ ret.err.batch = firstFailed
             ELSE /\ ret.err = NoErr
                  /\ Len(ret.vectors) = Len(texts)
                  /\ \A i \in 1..Len(texts) : ret.vectors[i] # <<>>

\* A call in which two batches failed and another one had delivered its
\* vectors: the first recorded failure is returned.
C2_Witness ==
    /\ phase = "returned"
    /\ failures >= 2
    /\ ret.err.batch = firstFailed
    /\ \E i \in 1..Len(results) : results[i] # <<>>

\* C3: at most maxConcurrent batch requests are in flight.
C3_BoundedInFlight == Cardinality(InFlight) <= client.maxConcurrent

\* Every slot is taken while another batch waits for one.
C3_Witness ==
    /\ Cardinality(InFlight) = client.maxConcurrent
    /\ \E b \in DOMAIN pc : pc[b] = "waiting"

\* C4: once the context is cancelled, a goroutine waiting for a semaphore
\* slot leaves the wait because of the signal: it exits without taking a
\* slot and without issuing a request.
C4_WaitersLeaveOnSignal ==
    [][\A b \in DOMAIN pc :
          (ctxDone /\ pc[b] = "waiting" /\ pc'[b] # "waiting")
              => (pc'[b] = "done" /\ sem' = sem)]_vars

\* ------------------------------------------------------------------------
\* Properties of CachedClient.EmbedTexts (SpecCached)
\* ------------------------------------------------------------------------
KeyOf(t) == GenerateCacheKey(DefaultModel, t)

AbsentFromLookup(t) == KeyOf(t) \notin DOMAIN cached

\* C5: the underlying client is called with exactly the texts whose key is
\* absent from the cache lookup, in input order, and not at all when none
\* is absent; the result has the cached and the fresh vectors at their
\* input positions.
C5_OnlyUncachedSent ==
    (cphase # "idle" /\ ctexts # <<>>) =>
        /\ clientCalls = IF SelectSeq(ctexts, AbsentFromLookup) = <<>> THEN <<>>
                         ELSE <<SelectSeq(ctexts, AbsentFromLookup)>>
        /\ (cphase = "returned" /\ cret.err = NoErr) =>
              /\ Len(cret.vectors) = Len(ctexts)
              /\ \A i \in 1..Len(ctexts) :
                    cret.vectors[i] = IF AbsentFromLookup(ctexts[i])
                                      THEN RemoteEmbedding(ctexts[i])
                                      ELSE cached[KeyOf(ctexts[i])]

\* After EmbedTexts([a,b,c]) filled the cache, EmbedTexts([a,c]) returned
\* the vectors of a and c without a remote call.
C5_Witness ==
    /\ cphase = "returned"
    /\ ctexts = <<"a", "c">>
    /\ DOMAIN cache = {KeyOf("a"), KeyOf("b"), KeyOf("c")}
    /\ clientCalls = <<>>
    /\ cret = [vectors |-> <<RemoteEmbedding("a"), RemoteEmbedding("c")>>,
               err |-> NoErr]

\* C6: after a failed GetMulti every text is sent to the underlying client
\* and the call succeeds when that client does; after a failed SetMulti the
\* call returns the fresh vectors and no error.
C6_CacheFailuresSwallowed ==
    (cphase = "returned" /\ ctexts # <<>>) =>
        /\ getFailed =>
              /\ clientCalls = <<ctexts>>
              /\ clientRet.err = NoErr =>
                    cret = [vectors |-> clientRet.vectors, err |-> NoErr]
        /\ setFailed =>
              /\ cret.err = NoErr
              /\ Len(cret.vectors) = Len(ctexts)
              /\ \A i \in 1..Len(uncachedIndices) :
                    cret.vectors[uncachedIndices[i] + 1] = clientRet.vectors[i]

\* Both cache operations failed on texts the cache holds, and the call
\* returned their freshly computed vectors.
C6_Witness ==
    /\ cphase = "returned"
    /\ getFailed
    /\ setFailed
    /\ cret.err = NoErr
    /\ Len(ctexts) >= 2
    /\ \A i \in 1..Len(ctexts) : KeyOf(ctexts[i]) \in DOMAIN cache

\* ------------------------------------------------------------------------
\* Properties of the visualization handlers (SpecViz)
\* ------------------------------------------------------------------------

\* the handler got as far as sampling its statements
Sampled == vreq # NoRequest /\ vfault # "statements" /\ vresp.status # 400
               /\ vresp.status # 503

\* C7: of a project with more than 1000 embedded statements exactly 1000
\* are kept, the i-th kept (from 0) being the statement at source index
\* floor(i * n / 1000), so that the kept indices are strictly increasing; a
\* project of at most 1000 statements keeps them all.
C7_EvenlySpacedSample ==
    Sampled =>
        IF stmtCount > maxVisualizationPoints
        THEN /\ Len(kept) = maxVisualizationPoints
             /\ \A i \in 1..Len(kept) :
                    kept[i] = ((i - 1) * stmtCount) \div maxVisualizationPoints
             /\ \A i \in 1..(Len(kept) - 1) : kept[i] < kept[i + 1]
        ELSE kept = StoredStatements(stmtCount)

\* C8: no document is looked up statement by statement while a
\* visualization request is served.
C8_NoPerStatementLookup == docReads.byID = 0

\* ------------------------------------------------------------------------
\* Properties of FindSimilarPairs (SpecSim)
\* ------------------------------------------------------------------------

\* the threshold in force: the argument, or 0.75 for an argument <= 0
EffectiveThreshold ==
    IF simThreshold[1] <= 0 THEN <<3, 4>> ELSE simThreshold

\* the cosine similarity of embeddings i and j, counted from 0
SimOf(i, j) == CosineSimilarity(simEmbeddings[i + 1], simEmbeddings[j + 1])

C10_TiesInIndexOrder ==
    simPhase = "returned" =>
        \A k \in 1..(Len(simPairs) - 1) :
            \/ Less(simPairs[k + 1].Similarity, simPairs[k].Similarity)
            \/ /\ simPairs[k + 1].Similarity = simPairs[k].Similarity
               /\ \/ simPairs[k].Idx1 < simPairs[k + 1].Idx1
                  \/ /\ simPairs[k].Idx1 = simPairs[k + 1].Idx1
                     /\ simPairs[k].Idx2 < simPairs[k + 1].Idx2

\* all index pairs of the call's embeddings, counted from 0
AllPairs ==
    {<<i, j>> \in (0..(Len(simEmbeddings) - 1)) \X (0..(Len(simEmbeddings) - 1)) :
        i < j}

Returned == {<<simPairs[n].Idx1, simPairs[n].Idx2>> : n \in DOMAIN simPairs}

\* C11: for k > 0, TopKSimilar(E, k) is the first min(k, number of pairs)
\* elements of the list of all pairs i < j ordered by similarity descending,
\* no threshold applied: it has that many elements, each a pair of E with
\* its similarity, each once, in non-increasing order, and no pair left out
\* is more similar than one returned.
C11_TopKWithoutThreshold ==
    (simPhase = "topk" /\ simK > 0) =>
        /\ Len(simPairs) = IF simK < Cardinality(AllPairs) THEN simK
                           ELSE Cardinality(AllPairs)
        /\ Returned \subseteq AllPairs
        /\ Cardinality(Returned) = Len(simPairs)
        /\ \A n \in DOMAIN simPairs :
               simPairs[n].Similarity = SimOf(simPairs[n].Idx1, simPairs[n].Idx2)
        /\ \A n \in 1..(Len(simPairs) - 1) :
               ~Less(simPairs[n].Similarity, simPairs[n + 1].Similarity)
        /\ \A p \in AllPairs \ Returned : \A n \in DOMAIN simPairs :
               ~Less(simPairs[n].Similarity, SimOf(p[1], p[2]))

\* ------------------------------------------------------------------------
\* Properties of DetectContradictions (SpecContra)
\* ------------------------------------------------------------------------

\* C12: the results DetectContradictions returns are ordered by severity
\* (high before medium before low) and, within one severity, by confidence
\* descending.
C12_SeverityThenConfidence ==
    dphase = "returned" =>
        \A i, j \in DOMAIN dret.results :
            i < j =>
                \/ severityOf(dret.results[i]) > severityOf(dret.results[j])
                \/ /\ severityOf(dret.results[i]) = severityOf(dret.results[j])
                   /\ dret.results[i].Confidence >= dret.results[j].Confidence

\* the pairs whose classifier call failed
FailedPairs == {i \in DOMAIN doutcome : doutcome[i].err # Nil}

\* the contradictions with a non-empty type that successful calls reported
Reported ==
    {doutcome[i] : i \in {k \in DOMAIN doutcome :
                              /\ doutcome[k].id = k
                              /\ doutcome[k].err = Nil
                              /\ doutcome[k].found
                              /\ doutcome[k].Type # ""}}

\* C13: whichever per-pair calls fail, DetectContradictions returns no
\* error, and its result holds exactly the typed contradictions of the
\* pairs whose call succeeded with a positive verdict, each once.
C13_PairFailuresSwallowed ==
    dphase = "returned" =>
        /\ dret.err = Nil
        /\ Range(dret.results) = Reported
        /\ Len(dret.results) = Cardinality(Reported)

\* a return, without any cancellation, where the call for one analysed
\* pair failed and the call for the other reported a contradiction
C13_Witness ==
    /\ dphase = "returned"
    /\ ~dcancelled
    /\ Len(dfiltered) = 2
    /\ doutcome[dfiltered[1].id].err # Nil
    /\ Len(dret.results) = 1
    /\ dret.results[1].id = dfiltered[2].id

\* C14: when ctx is cancelled while DetectContradictions runs, what it
\* returns is the cancellation error, never a result with a nil error.
C14_CancellationReturned ==
    (dphase = "returned" /\ dcancelled) => dret.err = "cancelled"

\* ------------------------------------------------------------------------
\* Properties of the handlers' status codes and dimensions (SpecViz)
\* ------------------------------------------------------------------------

\* the request asks for a semantic projection
SemanticRequest ==
    \/ vreq.handler = "POST" /\ vreq.body = "json"
    \/ vreq.handler = "GET" /\ vreq.method = "semantic"

\* C15: when a request with method=semantic is rendered, the dimensions it
\* is projected into, the dimensions of the coordinates handed to
\* clustering and the dimensions field of the response all equal the number
\* of axis words, whatever dimensions the request asked for, on GET
\* visualization and on POST axes.
C15_SemanticDimensionsAreWords ==
    (SemanticRequest /\ vresp.status = 200 /\ vresp.points > 0) =>
        /\ vtrace.projection = vreq.words
        /\ vtrace.clustering = vreq.words
        /\ vresp.dimensions = vreq.words

\* the request fails input validation: semantic without axis words, or
\* more than three of them
FailsValidation == SemanticRequest /\ (vreq.words = 0 \/ vreq.words > 3)

\* C16: a request that fails input validation is answered 4xx on GET
\* visualization and on POST axes, never 5xx and never with a success.
C16_ValidationFailuresAre4xx ==
    (FailsValidation /\ vfault = "none") => vresp.status \in 400..499

\* the request needs a collaborator the server was started without
NotConfigured ==
    /\ vreq.project = "uuid"
    /\ \/ /\ SemanticRequest
          /\ vreq.words \in 1..3
          /\ embeddingClient = "nil"
       \/ /\ vreq.handler = "CONTRADICTIONS"
          /\ contradictionService = "nil"

\* C17: a request that needs a collaborator which is not configured is
\* answered 503; it never reaches the embedding or the classifier call.
C17_NotConfiguredIs503 ==
    NotConfigured =>
        /\ vresp.status = 503
        /\ ~vtrace.embedCalled
        /\ ~vtrace.classifierCalled

\* ------------------------------------------------------------------------
\* Properties of handleUpload (SpecUpload)
\* ------------------------------------------------------------------------

\* C18: however handleUpload requests interleave, the documents table holds
\* at most one document per project and content hash.
C18_OneDocumentPerHash ==
    \A d, e \in documents :
        (d.project = e.project /\ d.hash = e.hash) => d = e

\* ------------------------------------------------------------------------
\* Properties of the anomaly Service (SpecAnomaly)
\* ------------------------------------------------------------------------

\* C19: after NewService with any Config and any SetThreshold calls,
\* GetThreshold() lies in (0, 1], and a SetThreshold with a value outside
\* (0, 1] leaves the threshold as it was.
C19_ThresholdInUnitInterval ==
    /\ GetThreshold > 0
    /\ GetThreshold <= One
    /\ (lastSet.called /\ ~(lastSet.threshold > 0 /\ lastSet.threshold <= One))
           => GetThreshold = lastSet.before

\* ------------------------------------------------------------------------
\* Properties of the auth PostgresRepository (SpecAuth)
\* ------------------------------------------------------------------------

\* the last call was a lookup whose query ran and selected no row
LookupFoundNoRow ==
    /\ authCall.fault = "none"
    /\ \/ authCall.op = "GetByID" /\ \A u \in users : u.id # authCall.arg
       \/ authCall.op = "GetByEmail" /\ \A u \in users : u.email # authCall.arg

\* C20: GetByID and GetByEmail return a nil user and ErrUserNotFound
\* whenever the query finds no row for the id or email.
C20_NoRowIsErrUserNotFound ==
    LookupFoundNoRow =>
        authRet = [user |-> NoUser, err |-> "ErrUserNotFound"]

\* a lookup by email that found no row although the table has users
C20_Witness ==
    /\ LookupFoundNoRow
    /\ authCall.op = "GetByEmail"
    /\ users # {}
    /\ authRet.err = "ErrUserNotFound"

\* ------------------------------------------------------------------------
\* Properties of concurrent DetectAnomalies calls (SpecForest)
\* ------------------------------------------------------------------------

\* C21: when DetectAnomalies calls run concurrently on one Service with
\* different statement sets, the isolation-forest scores of each call come
\* from trees fitted on that call's own embeddings, never from trees the
\* other call fitted.
C21_ScoredOnOwnForest ==
    \A c \in Callers :
        (detections[c].pc = "done" /\ anomalyConfig.Detector # "distance") =>
            /\ detections[c].outcome = "scores"
            /\ detections[c].scoredOn = {c}

\* ------------------------------------------------------------------------
\* Properties of KMeans.Fit (SpecKMeans)
\* ------------------------------------------------------------------------

\* C22: in every update step of KMeans.Fit a cluster with no point keeps
\* the centroid it had before the update, and a cluster with members gets
\* the mean of its members.
C22_EmptyClusterKeepsCentroid ==
    (kmUpdate.done /\ kmPhase = "iterating") =>
        \A c \in DOMAIN Centroids :
            IF kmUpdate.counts[c] = 0
            THEN Centroids[c] = kmUpdate.before[c]
            ELSE Centroids[c] = Quotient(sumOver(kmData, members(Labels, c))[1],
                                         kmUpdate.counts[c])

\* ------------------------------------------------------------------------
\* Properties of findElbow (SpecElbow)
\* ------------------------------------------------------------------------

\* C23: for an inertia curve of length n > 2 findElbow returns a k with
\* 2 <= k <= n - 1 whose point is at least as far from the line through
\* the first and the last point as every other such point; for a curve of
\* length at most 2 it returns the length.
C23_ElbowIsFarthestInnerPoint ==
    inertias # <<>> =>
        IF Len(inertias) <= 2 THEN elbow = Len(inertias)
        ELSE /\ elbow \in 2..(Len(inertias) - 1)
             /\ \A k \in 2..(Len(inertias) - 1) :
                    ~Greater(lineDistance(inertias, k - 1),
                             lineDistance(inertias, elbow - 1))

\* ------------------------------------------------------------------------
\* Properties of ExtractKeywords (SpecKeywords)
\* ------------------------------------------------------------------------

\* keyword p comes before keyword q in (score descending, word ascending)
Before(p, q) ==
    \/ ScoreGreater(p.Score, q.Score)
    \/ p.Score = q.Score /\ WordRank(p.Word) < WordRank(q.Word)

\* the scored terms of the texts of the call
ScoredTerms ==
    LET tfidf == computeTFIDF([i \in DOMAIN kwTexts |-> tokenize(kwTexts[i])])
    IN  {[Word |-> word, Score |-> tfidf[word]] : word \in DOMAIN tfidf}

\* C24: ExtractKeywords returns the top-K terms in the order score
\* descending, word ascending, so the list returned is determined by the
\* texts: it is ordered that way and no term left out comes before a term
\* returned.
C24_KeywordsByScoreThenWord ==
    (kwPhase = "returned" /\ kwTexts # <<>>) =>
        /\ \A i, j \in DOMAIN keywords :
               i < j => Before(keywords[i], keywords[j])
        /\ \A p \in ScoredTerms \ Range(keywords) :
               \A i \in DOMAIN keywords : Before(keywords[i], p)

\* ------------------------------------------------------------------------
\* Properties of the semantic projection (SpecSemantic)
\* ------------------------------------------------------------------------

\* C25: before the min-max normalization, the coordinate of every statement
\* on the axis of every anchor word is the dot product of the statement's
\* embedding with the whole embedding of the word (for embeddings of the
\* same length).
C25_CoordinateIsDotProduct ==
    semPhase = "projected" =>
        \A i \in DOMAIN semRaw : \A j \in DOMAIN semRaw[i] :
            Len(semEmbeddings[i]) = Len(semWords[j]) =>
                semRaw[i][j] = Dot(semEmbeddings[i], semWords[j])

\* ------------------------------------------------------------------------
\* Properties of the anomaly scores (SpecScored)
\* ------------------------------------------------------------------------

\* C26: on a statement set of exactly one statement, DetectAnomalies of a
\* Service with the default (ensemble) configuration returns the anomaly
\* score 0.5 for that statement.
C26_SingleStatementScoresHalf ==
    (/\ scPhase = "returned"
     /\ Len(scEmbeddings) = 1
     /\ anomalyConfig = DefaultAnomalyConfig) =>
        scResults[1].Score = <<1, 2>>

\* ------------------------------------------------------------------------
\* Properties of Client.EmbedTexts with any remote (SpecEmbedAnyRemote)
\* ------------------------------------------------------------------------

\* C27: whenever EmbedTexts returns without error, every slot of the result
\* holds a vector the remote delivered (under the index of that text); a
\* response that omits or repeats an index, or carries one outside the
\* batch, never leads to a successful result with an empty slot.
C27_NoEmptySlotOnSuccess ==
    (phase = "returned" /\ ret.err = NoErr) =>
        /\ Len(ret.vectors) = Len(texts)
        /\ \A i \in DOMAIN ret.vectors :
               /\ ret.vectors[i] # <<>>
               /\ ret.vectors[i] \in {RemoteEmbedding(t) : t \in Range(texts)}

\* C28: when handleUpload answers with an error the stored state is as
\* before the request: the document the request created is not left in the
\* documents table (so a retry of the file is not answered "exists").
C28_FailedUploadStoresNothing ==
    \A r \in Requests :
        (uploads[r].pc = "done" /\ uploads[r].status >= 400) =>
            \A d \in documents : d.id # uploads[r].doc.id

\* ------------------------------------------------------------------------
\* Properties of the project routes (SpecAccess)
\* ------------------------------------------------------------------------

\* the routes the claim lists
ProjectScoped == ReadEndpoints \cup {"delete document"}

\* C29: a project-scoped endpoint returns or modifies data only when the
\* authenticated user owns the project named in the URL, and then only
\* data of that project; any other user is refused.
C29_OnlyOwnerIsServed ==
    (/\ accReq.endpoint \in ProjectScoped
     /\ accResp.returned \cup accResp.modified # {}) =>
        /\ \E p \in ProjectRows :
               p.id = accReq.project /\ p.owner = accReq.user
        /\ accResp.returned \cup accResp.modified = {accReq.project}

\* ------------------------------------------------------------------------
\* Properties of Client.EmbedTexts with any options (SpecEmbedAnyOptions)
\* ------------------------------------------------------------------------

\* C30: for every configuration the options can give and every non-empty
\* input, a call of EmbedTexts eventually returns once each HTTP request
\* it issued has returned.
C30_EmbedTextsReturns ==
    (phase \notin {"idle", "returned"}) ~> (phase = "returned")

====
